---- MODULE Spec2Model ----
(***************************************************************************)
(* Boundary-layer derived-quantity engine of ppMusicaa                     *)
(* (src/ppModule/compute/compute_2d_curv.py) and its dispatcher            *)
(* PostProcessMusicaa.compute_qty (src/interface.py).                      *)
(*                                                                         *)
(* Conventions.                                                            *)
(*  - ndarrays are functions on 0..n-1 (the source's 0-based indices); a   *)
(*    2D array a[i, j] is a[i][j].                                         *)
(*  - A value stored under a derived key is tagged: Arr(f) for an ndarray, *)
(*    Sc(s) for a Python scalar, so that subscripting a scalar can fault   *)
(*    as it does in Python.                                                *)
(*  - Floating-point values are exact integers or exact rationals <<n,d>>  *)
(*    (reduced, d > 0); <<1,0>>, <<-1,0>> and <<0,0>> are +inf, -inf, nan. *)
(*  - An operation that can raise returns Raise(e) or a record whose exc   *)
(*    field names the exception ("none" when it returned normally).        *)
(***************************************************************************)
EXTENDS Integers, Sequences, FiniteSets, TLC

\* ---------------------------------------------------------------- bounds
MaxBloc  == 2      \* blocks 1..nbloc, nbloc <= MaxBloc
NX       == 3      \* streamwise stations of every block
NY       == 3      \* wall-normal points of a shallow block
UrefVal  == 3      \* info["Uref"]
RorefVal == 2      \* info["Roref"]

\* ------------------------------------------------------ program constants
ThetaMargin == 10  \* the fixed margin added to j99 in _momentum_thickness
CNum        == 2   \* c = 0.02 = CNum / CDen, the vorticity threshold
CDen        == 100
JumpPct     == 50  \* relative jump (percent) flagged as a discontinuity
EdgePct     == 99  \* d99: velocity(i, j) < 0.99 * ufst[i]
MinCubicPts == 4   \* interp1d(kind="cubic") needs at least 4 anchor points

NYDeep == ThetaMargin + 2   \* a block deep enough for j99 + 10 < ny - 1

COMPUTED_VARIABLES == {"ufst", "rhofst", "d99", "delta", "theta", "tauw"}

\* Names a caller may pass: the supported ones, one of them in upper case, and
\* two unsupported ones (the stored key "rho_fst" is not a supported name).
Requests == COMPUTED_VARIABLES \cup {"cf", "rho_fst", "UFST"}

RawKeys     == {"uu", "rho", "mu", "rho*dux", "rho*duy", "rho*dvx", "rho*dvy"}
DerivedKeys == {"ufst", "j99", "rho_fst", "d99", "deltas", "theta", "tauw", "cf"}

VARIABLES
    info,        \* self.info: nbloc, is_curv, Uref, Roref, nx, ny per block
    config,      \* self.config scalars: full_3d, norm_file (norm_surf.dat)
    block_info,  \* block -> the two flags read from "Boundary conditions"
    grid,        \* self.config["grid"]: x, y (z, full_3d for planes()) and, once set, nwall_normal
    stats,       \* self.config["stats"] = engine.stats: block -> key -> value
    outcome,     \* "idle", "returned" or "raised": how the last request ended
    qty,         \* the name given to the last compute_qty
    result,      \* the mapping the last compute_qty returned ({} = <<>>)
    called,      \* engine methods compute_qty itself invoked in the last request
    prev_keys,   \* block -> the keys its Statistics Field had before that request
    cv,          \* a call of _check_vel_discontinuity on its own: input, outputs
    call         \* a call of one function on its own: op, its inputs, out

vars == <<info, config, block_info, grid, stats, outcome, qty, result, called,
          prev_keys, cv, call>>

\* --------------------------------------------------------------- helpers
Idx(n)  == 0 .. (n - 1)
Abs(a)  == IF a < 0 THEN -a ELSE a
Sign(a) == IF a < 0 THEN -1 ELSE IF a > 0 THEN 1 ELSE 0
MinOf(a, b) == IF a < b THEN a ELSE b
SetMax(S) == CHOOSE m \in S : \A k \in S : k <= m
SetMin(S) == CHOOSE m \in S : \A k \in S : m <= k

\* The value of a local: S is {e : v \in {x}}, e computed with x evaluated once.
Only(S) == CHOOSE y \in S : TRUE

RECURSIVE GCD(_, _)
GCD(a, b) == IF b = 0 THEN a ELSE GCD(b, a % b)

\* The float n / d, exactly.
Rat(n, d) ==
    IF d = 0 THEN <<Sign(n), 0>>
    ELSE LET g == GCD(Abs(n), Abs(d))
         IN  <<Sign(d) * (n \div g), Abs(d) \div g>>

RNeg(r) == <<-r[1], r[2]>>

\* a / b in floating point: x / 0 is an infinity of the sign of x, 0 / 0 and
\* inf / inf are nan, x / inf is 0, and nan propagates.
RDiv(a, b) ==
    Only({IF (r[1] = 0 /\ r[2] = 0) \/ (s[1] = 0 /\ s[2] = 0) THEN <<0, 0>>
          ELSE IF s[2] = 0 THEN (IF r[2] = 0 THEN <<0, 0>> ELSE <<0, 1>>)
          ELSE IF s[1] = 0 THEN <<Sign(r[1]), 0>>
          ELSE IF r[2] = 0 THEN <<Sign(r[1]) * Sign(s[1]), 0>>
          ELSE Rat(r[1] * s[2], r[2] * s[1]) : r \in {a}, s \in {b}})

RMulInt(r, k) == IF r[2] = 0 THEN <<Sign(r[1] * k), 0>> ELSE Rat(r[1] * k, r[2])
RAbs(r)       == <<Abs(r[1]), r[2]>>
RAdd(a, b) ==
    Only({IF r[2] = 0 /\ s[2] = 0 THEN (IF r[1] = s[1] THEN r ELSE <<0, 0>>)
          ELSE IF r[2] = 0 THEN r
          ELSE IF s[2] = 0 THEN s
          ELSE Rat(r[1] * s[2] + s[1] * r[2], r[2] * s[2]) : r \in {a}, s \in {b}})

\* sqrt of a perfect square (the grids used have integer arc lengths).
ISqrt(n) == CHOOSE r \in 0 .. n : r * r = n

Sc(s)   == [kind |-> "scalar", v |-> s]
Arr(f)  == [kind |-> "array",  v |-> f]
NoneVal == [kind |-> "None",   v |-> 0]

Raise(e)  == [exc |-> e]
Raised(r) == "exc" \in DOMAIN r

Has(st, b, k)    == k \in DOMAIN st[b]
\* Put writing through to the raw velocity of the block as well.
PutThrough(st, b, k, v) ==
    [st EXCEPT ![b] = (k :> v) @@ [@ EXCEPT !["uu"][0][0] = 1 - @]]

Put(st, b, k, v) == [st EXCEPT ![b] = (k :> v) @@ @]

Blocks == 1 .. info.nbloc
nxOf(b) == info.nx[b]
nyOf(b) == info.ny[b]

\* Boundary conditions [0][2] == "0" and [1][2] == "-": a no-slip wall at jmin.
IsWall(b) == block_info[b][1] = "0" /\ block_info[b][2] = "-"
IsSlip(b) == block_info[b][1] = "0" /\ block_info[b][2] = "s"

\* The engine exists only for a 2D curvilinear (or extruded) grid.
HasEngine == info.is_curv = "T" /\ ~config.full_3d

\* ------------------------------------------------- the numerical library
\* The velocities handed to _check_vel_discontinuity are floats, kept here as
\* exact rationals <<n, d>> in lowest terms (rounding is not modelled).  The
\* weights of the Gaussian kernel are irrational, so the filter of a slice that
\* is not constant is no rational: such a float is kept as Between(lo, hi), a
\* float with lo <= value <= hi, and a float computed from one as SomeFloat.
Between(lo, hi) == <<lo, hi, "between">>
SomeFloat       == <<"float">>
IsExact(v)      == Len(v) = 2

ToQ(u) == [k \in DOMAIN u |-> <<u[k], 1>>]
\* An array of floats as the store of the model keeps it: integers as such.
FromQ(u) == [k \in DOMAIN u |-> IF IsExact(u[k]) /\ u[k][2] = 1 THEN u[k][1] ELSE u[k]]

RLess(a, b) == a[1] * b[2] < b[1] * a[2]
RMul(a, b)  == Rat(a[1] * b[1], a[2] * b[2])
RSub(a, b)  == RAdd(a, RNeg(b))
RMin(S)     == CHOOSE m \in S : \A k \in S : ~RLess(k, m)
RMax(S)     == CHOOSE m \in S : \A k \in S : ~RLess(m, k)

\* scipy.ndimage.gaussian_filter1d(input=u, sigma=sigma) on the slice u (a
\* function on lo..hi): every output is a mean of the inputs (reflected at the
\* ends) with positive weights of sum 1.  A constant slice is returned as it
\* is; otherwise every output lies between the minimum and the maximum.
gaussian_filter1d(u, sigma) ==
    IF DOMAIN u = {} THEN u
    ELSE IF \E k \in DOMAIN u : ~IsExact(u[k]) THEN [k \in DOMAIN u |-> SomeFloat]
    ELSE LET vals == {u[k] : k \in DOMAIN u}
         IN  IF Cardinality(vals) = 1 THEN u
             ELSE [k \in DOMAIN u |-> Between(RMin(vals), RMax(vals))]

\* The polynomial of lowest degree through the anchors pts (a sequence of
\* <<x, y>>, x integer, y rational), at xq.
RECURSIVE BasisNum(_, _, _, _)
BasisNum(pts, i, xq, j) ==
    IF j = 0 THEN 1
    ELSE (IF j = i THEN 1 ELSE xq - pts[j][1]) * BasisNum(pts, i, xq, j - 1)

RECURSIVE BasisDen(_, _, _)
BasisDen(pts, i, j) ==
    IF j = 0 THEN 1
    ELSE (IF j = i THEN 1 ELSE pts[i][1] - pts[j][1]) * BasisDen(pts, i, j - 1)

RECURSIVE LagrangeSum(_, _, _)
LagrangeSum(pts, xq, i) ==
    IF i = 0 THEN <<0, 1>>
    ELSE RAdd(LagrangeSum(pts, xq, i - 1),
              RMul(pts[i][2], Rat(BasisNum(pts, i, xq, Len(pts)), BasisDen(pts, i, Len(pts)))))

Lagrange(pts, xq) == LagrangeSum(pts, xq, Len(pts))

\* The cubic spline through five anchors with not-a-knot ends, at xq: a cubic
\* p on [x1, x3] and a cubic q on [x3, x5] that agree at x3 with their first
\* two derivatives.  With Q the parabola through the first three anchors and
\* w(t) = (t - x1)(t - x2)(t - x3), p = Q + a w and q = p + c (t - x3)^3, a and
\* c being fixed by the last two anchors.
NotAKnot5(pts, xq) ==
    LET x(i) == pts[i][1]
        first3 == SubSeq(pts, 1, 3)
        w(t) == (t - x(1)) * (t - x(2)) * (t - x(3))
        e(t) == (t - x(3)) * (t - x(3)) * (t - x(3))
        r(i) == RSub(pts[i][2], Lagrange(first3, x(i)))
        det  == w(x(4)) * e(x(5)) - w(x(5)) * e(x(4))
        a == RDiv(RSub(RMulInt(r(4), e(x(5))), RMulInt(r(5), e(x(4)))), <<det, 1>>)
        c == RDiv(RSub(RMulInt(r(5), w(x(4))), RMulInt(r(4), w(x(5)))), <<det, 1>>)
    IN  RAdd(RAdd(Lagrange(first3, xq), RMulInt(a, w(xq))),
             IF xq > x(3) THEN RMulInt(c, e(xq)) ELSE <<0, 1>>)

\* scipy.interpolate.interp1d(x, y, kind="cubic")(xq) for anchors pts sorted
\* by x, xq within their range: the not-a-knot cubic spline.  With four anchors
\* it is the cubic through them; through anchors of one value it is that
\* value.  The spline of six anchors or more is not computed here.
interp1d_cubic(pts, xq) ==
    IF \E i \in 1 .. Len(pts) : ~IsExact(pts[i][2]) THEN SomeFloat
    ELSE IF \A i \in 1 .. Len(pts) : pts[i][2] = pts[1][2] THEN pts[1][2]
    ELSE IF Len(pts) = MinCubicPts THEN Lagrange(pts, xq)
    ELSE IF Len(pts) = MinCubicPts + 1 THEN NotAKnot5(pts, xq)
    ELSE SomeFloat

\* Jumps with the comparison written >= instead of >.
JumpsAtLeast(ufst) ==
    LET n == Cardinality(DOMAIN ufst)
    IN  {k \in 0 .. (n - 2) :
            /\ 100 * Abs(ufst[k + 1][1] * ufst[k][2] - ufst[k][1] * ufst[k + 1][2])
                  >= JumpPct * Abs(ufst[k][1]) * ufst[k + 1][2]
            /\ ufst[k + 1] # ufst[k]}

\* m = np.where(|ufst[1:] - ufst[:-1]| / |ufst[:-1]| * 100 > 50)[0], ufst an
\* array of rationals.  x / 0 is inf for x # 0 (flagged) and nan for x = 0 (not
\* flagged), which the cross-multiplied comparison reproduces.
Jumps(ufst) ==
    LET n == Cardinality(DOMAIN ufst)
    IN  {k \in 0 .. (n - 2) :
            100 * Abs(ufst[k + 1][1] * ufst[k][2] - ufst[k][1] * ufst[k + 1][2])
               > JumpPct * Abs(ufst[k][1]) * ufst[k + 1][2]}

\* The anchors of the interpolation, sorted by abscissa: the stations K with
\* abscissa ax[k] and (filtered) velocity ay[k].
SortedAnchors(K, ax, ay) ==
    [r \in 1 .. Cardinality(K) |->
        Only({<<ax[k], ay[k]>> :
                k \in {h \in K : Cardinality({g \in K : ax[g] < ax[h]}) = r - 1}})]

\* check_vel_discontinuity freezing the index of the repaired stations to its
\* upstream value jfst[i1] instead of jfst[i2].
check_vel_discontinuity_upstream(ufst, jfst, block) ==
    LET n == Cardinality(DOMAIN ufst)
        m == Jumps(ufst)
    IN  IF m = {} THEN [u |-> ufst, j |-> jfst]
        ELSE IF SetMin(m) = 0 THEN [u |-> ufst, j |-> jfst]
        ELSE
          LET i1 == SetMin(m) - 1
              i2 == SetMax(m) + 1
              x  == grid.x[block]
              u1 == gaussian_filter1d([k \in 0 .. (i1 - 1) |-> ufst[k]], 2)
              u2 == gaussian_filter1d([k \in i2 .. (n - 1) |-> ufst[k]], 3)
              K  == (0 .. (i1 - 1)) \cup (i2 .. (n - 1))
              ax == [k \in K |-> IF k < i1 THEN x[k][jfst[i1]] ELSE x[k][jfst[i2]]]
              ay == [k \in K |-> IF k < i1 THEN u1[k] ELSE u2[k]]
              xs == {ax[k] : k \in K}
              npts == i1 + (n - i2)
              x_interp == {x[k][jfst[i2]] : k \in i1 .. (i2 - 1)}
          IN  IF npts < MinCubicPts \/ Cardinality(xs) # npts
                 \/ \E xq \in x_interp : xq < SetMin(xs) \/ xq > SetMax(xs)
              THEN Raise("ValueError")
              ELSE [u |-> [k \in 0 .. (n - 1) |->
                              IF k < i1 THEN u1[k]
                              ELSE IF k < i2
                              THEN interp1d_cubic(SortedAnchors(K, ax, ay), x[k][jfst[i2]])
                              ELSE u2[k]],
                    j |-> [k \in 0 .. (n - 1) |->
                              IF k >= i1 /\ k < i2 THEN jfst[i1] ELSE jfst[k]]]

\* Compute2DCurv._check_vel_discontinuity(ufst, jfst, block), ufst an array of
\* rationals; the j returned is the array passed, written in place.
check_vel_discontinuity(ufst, jfst, block) ==
    LET n == Cardinality(DOMAIN ufst)
        m == Jumps(ufst)
    IN  IF m = {} THEN [u |-> ufst, j |-> jfst]
        ELSE IF SetMin(m) = 0 THEN [u |-> ufst, j |-> jfst]
        ELSE
          LET i1 == SetMin(m) - 1
              i2 == SetMax(m) + 1
              x  == grid.x[block]
              u1 == gaussian_filter1d([k \in 0 .. (i1 - 1) |-> ufst[k]], 2)
              u2 == gaussian_filter1d([k \in i2 .. (n - 1) |-> ufst[k]], 3)
              K  == (0 .. (i1 - 1)) \cup (i2 .. (n - 1))
              ax == [k \in K |-> IF k < i1 THEN x[k][jfst[i1]] ELSE x[k][jfst[i2]]]
              ay == [k \in K |-> IF k < i1 THEN u1[k] ELSE u2[k]]
              xs == {ax[k] : k \in K}
              npts == i1 + (n - i2)
              x_interp == {x[k][jfst[i2]] : k \in i1 .. (i2 - 1)}
          IN  IF npts < MinCubicPts \/ Cardinality(xs) # npts
                 \/ \E xq \in x_interp : xq < SetMin(xs) \/ xq > SetMax(xs)
              THEN Raise("ValueError")
              ELSE [u |-> [k \in 0 .. (n - 1) |->
                              IF k < i1 THEN u1[k]
                              ELSE IF k < i2
                              THEN interp1d_cubic(SortedAnchors(K, ax, ay), x[k][jfst[i2]])
                              ELSE u2[k]],
                    j |-> [k \in 0 .. (n - 1) |->
                              IF k >= i1 /\ k < i2 THEN jfst[i2] ELSE jfst[k]]]

\* ------------------------------------------------- the freestream detector
\* vorticity = rho*dvx / rho - rho*duy / rho  (the inputs divide exactly)
Vorticity(st, b, i, j) ==
    (st[b]["rho*dvx"][i][j] \div st[b]["rho"][i][j])
    - (st[b]["rho*duy"][i][j] \div st[b]["rho"][i][j])

\* offset = 1, then j + 2 for the last j in 1..ny-1 with uu[i, j] < 0
SearchOffset(st, b, i) ==
    LET neg == {j \in 1 .. (nyOf(b) - 1) : st[b]["uu"][i][j] < 0}
    IN  IF neg = {} THEN 1 ELSE SetMax(neg) + 2

\* ind_ = np.where(-y[i, offset:] * vorticity[i, offset:] < c)[0]: positions
\* counted from the start of the slice.
SliceHits(st, b, i) ==
    LET off == SearchOffset(st, b, i)
    IN  {k \in 0 .. (nyOf(b) - 1 - off) :
            (-grid.y[b][i][off + k] * Vorticity(st, b, i, off + k)) * CDen < CNum}

\* The loop of _freestream_velocity: u_fst, j_fst before the continuity check.
SearchU(st, b) ==
    [i \in Idx(nxOf(b)) |->
        IF i = 0 THEN 0
        ELSE IF SliceHits(st, b, i) # {}
             THEN st[b]["uu"][i][SetMin(SliceHits(st, b, i))]
             ELSE st[b]["uu"][i][1]]

SearchJ(st, b) ==
    [i \in Idx(nxOf(b)) |->
        IF i = 0 THEN 0
        ELSE IF SliceHits(st, b, i) # {} THEN SetMin(SliceHits(st, b, i)) ELSE 0]

\* Compute2DCurv._freestream_velocity(block)
freestream_velocity(st, b) ==
    Only({IF Raised(r) THEN r ELSE [u |-> FromQ(r.u), j |-> r.j] :
            r \in {check_vel_discontinuity(ToQ(SearchU(st, b)), SearchJ(st, b), b)}})

\* UfstBlock with the slip-wall branch sent through the freestream search.
UfstBlockSlipSearched(st, b) ==
    IF IsWall(b) \/ IsSlip(b) THEN
        Only({IF Raised(r) THEN r
              ELSE [ufst |-> Arr(IF r.u[0] = 0 THEN [r.u EXCEPT ![0] = r.u[1]] ELSE r.u),
                    j99  |-> Arr(r.j)] : r \in {freestream_velocity(st, b)}})
    ELSE [ufst |-> Sc(info.Uref), j99 |-> Sc(1)]

\* One block of compute_ufst: the stored ufst and j99, or the exception.
UfstBlock(st, b) ==
    IF IsWall(b) THEN
        Only({IF Raised(r) THEN r
              ELSE [ufst |-> Arr(IF r.u[0] = 0 THEN [r.u EXCEPT ![0] = r.u[1]] ELSE r.u),
                    j99  |-> Arr(r.j)] : r \in {freestream_velocity(st, b)}})
    ELSE [ufst |-> Sc(info.Uref), j99 |-> Sc(1)]

RECURSIVE ufst_from(_, _)
ufst_from(st, b) ==
    IF b > info.nbloc THEN [st |-> st, exc |-> "none"]
    ELSE Only({IF Raised(r) THEN [st |-> st, exc |-> r.exc]
               ELSE Only({ufst_from(s, b + 1) :
                            s \in {Put(Put(st, b, "ufst", r.ufst), b, "j99", r.j99)}}) :
               r \in {UfstBlock(st, b)}})

\* Compute2DCurv.compute_ufst()
compute_ufst(st) == ufst_from(st, 1)

\* Compute2DCurv._in_stats(qty): looks at block 1 only.
in_stats(st, q) == q \in DOMAIN st[1]

\* Run f only when q is missing from block 1 (the lazy prerequisite step).
\* r is the result of the previous step; an exception ends the chain.
Ensure(prev, q, f(_)) ==
    Only({IF r.exc # "none" THEN r
          ELSE IF in_stats(r.st, q) THEN r
          ELSE f(r.st) : r \in {prev}})

Ok(st) == [st |-> st, exc |-> "none"]

\* ------------------------------------------------------ freestream density
RhofstBlock(st, b) ==
    IF ~Has(st, b, "ufst") \/ ~Has(st, b, "j99") THEN Raise("KeyError")
    ELSE IF IsWall(b) THEN
        LET j_fst == st[b]["j99"].v
            raw   == [i \in Idx(nxOf(b)) |->
                        IF i = 0 THEN 0 ELSE st[b]["rho"][i][j_fst[i]]]
        IN  IF raw[0] = 0
            THEN IF nxOf(b) < 3 THEN Raise("IndexError")
                 ELSE [rho_fst |-> Arr([raw EXCEPT ![0] = raw[2]])]
            ELSE [rho_fst |-> Arr(raw)]
    ELSE [rho_fst |-> Sc(info.Roref)]

RECURSIVE rhofst_from(_, _)
rhofst_from(st, b) ==
    IF b > info.nbloc THEN Ok(st)
    ELSE Only({IF Raised(r) THEN [st |-> st, exc |-> r.exc]
               ELSE Only({rhofst_from(s, b + 1) : s \in {Put(st, b, "rho_fst", r.rho_fst)}}) :
               r \in {RhofstBlock(st, b)}})

\* Compute2DCurv.compute_rhofst()
compute_rhofst(st) ==
    Only({IF r.exc # "none" THEN r ELSE rhofst_from(r.st, 1) :
            r \in {Ensure(Ok(st), "ufst", compute_ufst)}})

\* --------------------------------------------------------- 99% thickness
\* Euclidean distance between grid points (i, j1) and (i, j2) of block b.
Dist(b, i, j1, j2) ==
    ISqrt((grid.y[b][i][j2] - grid.y[b][i][j1]) * (grid.y[b][i][j2] - grid.y[b][i][j1])
        + (grid.x[b][i][j2] - grid.x[b][i][j1]) * (grid.x[b][i][j2] - grid.x[b][i][j1]))

\* The index at which the while loop of _d99_thickness stops at station i.
WalkEnd(st, b, i) ==
    LET stop == {j \in Idx(nyOf(b)) :
                    ~(100 * st[b]["uu"][i][j] < EdgePct * st[b]["ufst"].v[i])}
    IN  IF stop = {} THEN nyOf(b) - 1 ELSE SetMin(stop)

\* normal_w[1, i]: the wall-normal store itself is what compute_d99 passes.
\* A dict has no key (1, i); an array of shape (3, n) has column i when i < n.
NormalY(normal_w, i) ==
    IF normal_w.kind = "None" THEN Raise("ValueError")
    ELSE IF normal_w.kind = "dict" THEN Raise("KeyError")
    ELSE IF i \notin DOMAIN normal_w.v[1] THEN Raise("IndexError")
    ELSE [val |-> normal_w.v[1][i]]

\* l_j of the last step taken at station i (j = WalkEnd >= 1), as a rational.
ArcAtEdge(st, b, i, j) ==
    LET u    == st[b]["uu"][i]
        U    == st[b]["ufst"].v[i]
        ljm1 == Dist(b, i, 0, j - 1)
        dlj  == Dist(b, i, j - 1, j)
    IN  RAdd(Rat(dlj * (EdgePct * U - 100 * u[j - 1]), 100 * (u[j] - u[j - 1])),
             <<ljm1, 1>>)

\* The stations first .. nx-1 of the loop of _d99_thickness: an entry before
\* first is as np.zeros left it.
D99Stations(st, b, normal_w, first) ==
    LET stepping == {i \in first .. (nxOf(b) - 1) : WalkEnd(st, b, i) >= 1}
        faulty   == {i \in stepping : Raised(NormalY(normal_w, i))}
    IN  IF faulty # {} THEN Raise(NormalY(normal_w, SetMin(faulty)).exc)
        ELSE [d99 |-> Arr([i \in Idx(nxOf(b)) |->
                        IF i \in stepping
                        THEN RAbs(RMulInt(ArcAtEdge(st, b, i, WalkEnd(st, b, i)),
                                          NormalY(normal_w, i).val))
                        ELSE <<0, 1>>]),
              j99 |-> Arr([i \in Idx(nxOf(b)) |->
                        IF i >= first THEN WalkEnd(st, b, i) ELSE 0])]

\* Compute2DCurv._d99_thickness(block, normal_w)
d99_thickness(st, b, normal_w) ==
    IF ~Has(st, b, "ufst") THEN Raise("KeyError")
    ELSE IF st[b]["ufst"].kind # "array" THEN Raise("TypeError")
    ELSE D99Stations(st, b, normal_w, 0)

D99Block(st, b, normal_w) ==
    IF IsWall(b) THEN d99_thickness(st, b, normal_w)
    ELSE [d99 |-> Arr([i \in Idx(nxOf(b)) |-> <<0, 1>>]), j99 |-> Sc(1)]

RECURSIVE d99_from(_, _, _)
d99_from(st, nw, b) ==
    IF b > info.nbloc THEN Ok(st)
    ELSE Only({IF Raised(r) THEN [st |-> st, exc |-> r.exc]
               ELSE Only({d99_from(s, nw, b + 1) :
                            s \in {Put(Put(st, b, "d99", r.d99), b, "j99", r.j99)}}) :
               r \in {D99Block(st, b, nw)}})

\* Compute2DCurv.compute_d99(); nw is self.grid["nwall_normal"].
compute_d99(st, nw) ==
    Only({IF r.exc # "none" THEN r ELSE d99_from(r.st, nw, 1) :
            r \in {Ensure(Ok(st), "ufst", compute_ufst)}})

\* The three lazy prerequisite steps shared by compute_delta and compute_theta.
Prerequisites(st, nw) ==
    Ensure(Ensure(Ensure(Ok(st), "ufst", compute_ufst),
                  "d99", LAMBDA s : compute_d99(s, nw)),
           "rho_fst", compute_rhofst)

\* ------------------------------------------------- displacement thickness
\* arg = 1 - rho[i, j] * uu[i, j] / ufst[i] / rho_fst[i], evaluated left to
\* right in floating point: a division by zero gives an infinity or, for 0 / 0,
\* nan, and both propagate.
DeltaArg(st, b, i, j) ==
    RAdd(<<1, 1>>,
         RNeg(RDiv(RDiv(<<st[b]["rho"][i][j] * st[b]["uu"][i][j], 1>>,
                        <<st[b]["ufst"].v[i], 1>>),
                   <<st[b]["rho_fst"].v[i], 1>>)))

\* One trapezoid cell of the displacement integrand at (i, j), (i, j + 1):
\* (arg1 + arg2) / 2 * the distance between the two points.
DeltaCell(st, b, i, j) ==
    RMulInt(RDiv(RAdd(DeltaArg(st, b, i, j), DeltaArg(st, b, i, j + 1)), <<2, 1>>),
            Dist(b, i, j, j + 1))

RECURSIVE DeltaSum(_, _, _, _)
DeltaSum(st, b, i, n) ==
    IF n = 0 THEN <<0, 1>>
    ELSE RAdd(DeltaSum(st, b, i, n - 1), DeltaCell(st, b, i, n - 1))

\* Compute2DCurv._displacement_thickness(block): range(j99) needs an integer;
\* the first cell looks up ufst and indexes it before it looks up rho_fst.
displacement_thickness(st, b) ==
    IF nxOf(b) = 0 THEN [deltas |-> Arr(<<>>)]
    ELSE IF ~Has(st, b, "j99") THEN Raise("KeyError")
    ELSE IF st[b]["j99"].kind = "array" THEN Raise("TypeError")
    ELSE IF st[b]["j99"].v <= 0
         THEN [deltas |-> Arr([i \in Idx(nxOf(b)) |-> <<0, 1>>])]
    ELSE IF ~Has(st, b, "ufst") THEN Raise("KeyError")
    ELSE IF st[b]["ufst"].kind # "array" THEN Raise("TypeError")
    ELSE IF ~Has(st, b, "rho_fst") THEN Raise("KeyError")
    ELSE IF st[b]["rho_fst"].kind # "array" THEN Raise("TypeError")
    ELSE [deltas |-> Arr([i \in Idx(nxOf(b)) |-> DeltaSum(st, b, i, st[b]["j99"].v)])]

DeltaBlock(st, b) ==
    IF IsWall(b) THEN displacement_thickness(st, b)
    ELSE [deltas |-> Arr([i \in Idx(nxOf(b)) |-> <<0, 1>>])]

RECURSIVE delta_from(_, _)
delta_from(st, b) ==
    IF b > info.nbloc THEN Ok(st)
    ELSE Only({IF Raised(r) THEN [st |-> st, exc |-> r.exc]
               ELSE Only({delta_from(s, b + 1) : s \in {Put(st, b, "deltas", r.deltas)}}) :
               r \in {DeltaBlock(st, b)}})

\* Compute2DCurv.compute_delta()
compute_delta(st, nw) ==
    Only({IF r.exc # "none" THEN r ELSE delta_from(r.st, 1) : r \in {Prerequisites(st, nw)}})

\* ----------------------------------------------------- momentum thickness
\* range(min(y.shape[1] - 1, int(j99[i]) + 10))
ThetaCells(st, b, i) == MinOf(nyOf(b) - 1, st[b]["j99"].v[i] + ThetaMargin)

\* One trapezoid cell of (u/U)(1 - u/U) at (i, j), (i, j + 1), over 2 * U^2.
ThetaCell(st, b, i, j) ==
    LET U == st[b]["ufst"].v[i]
        a(jj) == st[b]["uu"][i][jj] * (U - st[b]["uu"][i][jj])
    IN  Rat((a(j) + a(j + 1)) * Dist(b, i, j, j + 1), 2 * U * U)

RECURSIVE ThetaSum(_, _, _, _)
ThetaSum(st, b, i, n) ==
    IF n = 0 THEN <<0, 1>>
    ELSE RAdd(ThetaSum(st, b, i, n - 1), ThetaCell(st, b, i, n - 1))

\* The stations of block b at which _momentum_thickness executes its divisions
\* by ufst[i]: those with a cell to integrate, visited before the first such
\* station with ufst[i] == 0.
ThetaDivided(st, b) ==
    LET live == {i \in Idx(nxOf(b)) : ThetaCells(st, b, i) > 0}
        zero == {i \in live : st[b]["ufst"].v[i] = 0}
    IN  {i \in live : zero = {} \/ i < SetMin(zero)}

\* momentum_thickness zeroing only the stations whose ufst is zero.
momentum_thickness_station_only(st, b) ==
    [theta |-> Arr([i \in Idx(nxOf(b)) |->
                      IF st[b]["ufst"].v[i] = 0 THEN <<0, 1>>
                      ELSE ThetaSum(st, b, i, ThetaCells(st, b, i))])]

\* Compute2DCurv._momentum_thickness(block).  Stations are visited in order;
\* the first one with cells to integrate and ufst[i] == 0 zeroes the block, and
\* a station integrated before that reads rho_fst[i].
momentum_thickness(st, b) ==
    IF nxOf(b) = 0 THEN [theta |-> Arr(<<>>)]
    ELSE IF ~Has(st, b, "j99") THEN Raise("KeyError")
    ELSE IF st[b]["j99"].kind # "array" THEN Raise("TypeError")
    ELSE
      LET live == {i \in Idx(nxOf(b)) : ThetaCells(st, b, i) > 0}
      IN  IF live = {} THEN [theta |-> Arr([i \in Idx(nxOf(b)) |-> <<0, 1>>])]
          ELSE IF ~Has(st, b, "ufst") THEN Raise("KeyError")
          ELSE IF st[b]["ufst"].kind # "array" THEN Raise("TypeError")
          ELSE
            LET zero == {i \in live : st[b]["ufst"].v[i] = 0}
                read == {i \in live : zero = {} \/ i < SetMin(zero)}
            IN  IF read # {} /\ ~Has(st, b, "rho_fst") THEN Raise("KeyError")
                ELSE IF read # {} /\ st[b]["rho_fst"].kind # "array"
                     THEN Raise("TypeError")
                ELSE IF zero # {}
                     THEN [theta |-> Arr([i \in Idx(nxOf(b)) |-> <<0, 1>>])]
                ELSE [theta |-> Arr([i \in Idx(nxOf(b)) |->
                                      ThetaSum(st, b, i, ThetaCells(st, b, i))])]

RECURSIVE theta_from(_, _)
theta_from(st, b) ==
    IF b > info.nbloc THEN Ok(st)
    ELSE Only({IF Raised(r) THEN [st |-> st, exc |-> r.exc]
               ELSE Only({theta_from(s, b + 1) : s \in {Put(st, b, "theta", r.theta)}}) :
               r \in {momentum_thickness(st, b)}})

\* Compute2DCurv.compute_theta()
compute_theta(st, nw) ==
    Only({IF r.exc # "none" THEN r ELSE theta_from(r.st, 1) : r \in {Prerequisites(st, nw)}})

\* ------------------------------------------------------------ wall stress
\* nwall_normal[block_id]: the block's (2, nx) field of a dict, or row
\* block_id of a (3, n) array.
NormalOfBlock(nw, b) ==
    IF nw.kind = "dict"
    THEN (IF b \in DOMAIN nw.v THEN [rows |-> 2, v |-> nw.v[b]] ELSE Raise("KeyError"))
    ELSE (IF b \in DOMAIN nw.v THEN [rows |-> 1, v |-> nw.v[b]] ELSE Raise("IndexError"))

\* tangent[0] = normal_w[1]; tangent[1] = -normal_w[0], broadcast to nx columns.
\* Returns the two rows of the tangent, or the exception.
Tangent(normal_w, b) ==
    IF normal_w.rows = 2
    THEN IF DOMAIN normal_w.v[1] # Idx(nxOf(b)) THEN Raise("ValueError")
         ELSE [t0 |-> normal_w.v[1],
               t1 |-> [i \in Idx(nxOf(b)) |-> -normal_w.v[0][i]]]
    ELSE IF 1 \notin DOMAIN normal_w.v THEN Raise("IndexError")
         ELSE [t0 |-> [i \in Idx(nxOf(b)) |-> normal_w.v[1]],
               t1 |-> [i \in Idx(nxOf(b)) |-> -normal_w.v[0]]]

\* Compute2DCurv._wall_normal_velocity(block, normal_w): dudn at j = 0.
wall_normal_velocity(st, b, t) ==
    LET g(k, i) == st[b][k][i][0] \div st[b]["rho"][i][0]
    IN  [i \in Idx(nxOf(b)) |->
            (-t.t1[i] * g("rho*dux", i) + t.t0[i] * g("rho*duy", i)) * t.t0[i]
          + (-t.t1[i] * g("rho*dvx", i) + t.t0[i] * g("rho*dvy", i)) * t.t1[i]]

\* Element i of a stored value in array arithmetic (a scalar broadcasts).
Elem(val, i) == IF val.kind = "array" THEN val.v[i] ELSE val.v

TauwBlock(st, b, nw) ==
    LET nb == NormalOfBlock(nw, b)
    IN  IF Raised(nb) THEN nb
        ELSE LET t == Tangent(nb, b)
             IN  IF Raised(t) THEN t
                 ELSE IF ~Has(st, b, "rho_fst") \/ ~Has(st, b, "ufst")
                      THEN Raise("KeyError")
                 ELSE
                   LET dudn == wall_normal_velocity(st, b, t)
                       tauw == [i \in Idx(nxOf(b)) |-> st[b]["mu"][i][1] * dudn[i]]
                   IN  [tauw |-> Arr(tauw),
                        cf   |-> Arr([i \in Idx(nxOf(b)) |->
                                   Rat(2 * tauw[i],
                                       Elem(st[b]["rho_fst"], i)
                                       * Elem(st[b]["ufst"], i)
                                       * Elem(st[b]["ufst"], i))])]

RECURSIVE tauw_from(_, _, _)
tauw_from(st, nw, b) ==
    IF b > info.nbloc THEN Ok(st)
    ELSE Only({IF Raised(r) THEN [st |-> st, exc |-> r.exc]
               ELSE Only({tauw_from(s, nw, b + 1) :
                            s \in {Put(Put(st, b, "tauw", r.tauw), b, "cf", r.cf)}}) :
               r \in {TauwBlock(st, b, nw)}})

\* Compute2DCurv.compute_tauw(): no prerequisite is computed on demand.
compute_tauw(st, nw) == tauw_from(st, nw, 1)

\* ------------------------------------------------------ wall-normal field
\* compute_wall_normal with the two rows exchanged: the normal (1, 0).
compute_wall_normal_along_x ==
    [kind |-> "dict",
     v    |-> [b \in Blocks |-> [c \in 0 .. 1 |-> [i \in Idx(nxOf(b)) |-> 1 - c]]]]

\* Compute2DCurv.compute_wall_normal(): block -> [zeros(nx), ones(nx)]
compute_wall_normal ==
    [kind |-> "dict",
     v    |-> [b \in Blocks |-> [c \in 0 .. 1 |-> [i \in Idx(nxOf(b)) |-> c]]]]

\* First row of the file that belongs to block b.
RECURSIVE RowOffset(_)
RowOffset(b) == IF b = 1 THEN 0 ELSE RowOffset(b - 1) + nxOf(b - 1)

\* PostProcessMusicaa._read_norm_surf(): the loop rebinds wall_normal at each
\* block, so what is returned is the last block's slice, transposed: an array
\* of shape (3, n).  rows are the columns 2:5 of norm_surf.dat.
read_norm_surf(rows) ==
    LET b   == info.nbloc
        off == RowOffset(b)
        n   == Cardinality({r \in DOMAIN rows : r >= off /\ r < off + nxOf(b)})
    IN  [kind |-> "array",
         v    |-> [c \in 0 .. 2 |-> [i \in Idx(n) |-> rows[off + i][c + 1]]]]

\* ------------------------------------------------------------ dispatcher
\* qty.lower() on the names of Requests.
Lower(q) == IF q = "UFST" THEN "ufst" ELSE q

MethodName(q) == CASE Lower(q) = "ufst"   -> "compute_ufst"
                   [] Lower(q) = "rhofst" -> "compute_rhofst"
                   [] Lower(q) = "d99"    -> "compute_d99"
                   [] Lower(q) = "delta"  -> "compute_delta"
                   [] Lower(q) = "theta"  -> "compute_theta"
                   [] Lower(q) = "tauw"   -> "compute_tauw"
                   [] OTHER               -> "compute_" \o Lower(q)

\* The public compute_* methods of Compute2DCurv that take no argument.
EngineMethods == {"compute_ufst", "compute_rhofst", "compute_d99", "compute_delta",
                  "compute_theta", "compute_tauw", "compute_wall_normal"}

\* getattr(self.compute, method_name)()
Method(name, st, nw) ==
    CASE name = "compute_ufst"   -> compute_ufst(st)
      [] name = "compute_rhofst" -> compute_rhofst(st)
      [] name = "compute_d99"    -> compute_d99(st, nw)
      [] name = "compute_delta"  -> compute_delta(st, nw)
      [] name = "compute_theta"  -> compute_theta(st, nw)
      [] name = "compute_tauw"   -> compute_tauw(st, nw)

\* {block_id: block_data.get(qty.lower(), None) for ... in stats.items()}
Extract(st, q) ==
    [b \in DOMAIN st |-> IF Lower(q) \in DOMAIN st[b] THEN st[b][Lower(q)] ELSE NoneVal]

\* PostProcessMusicaa._check_normal(): the grid with nwall_normal set, or the
\* AttributeError of self.compute when no engine was built.
check_normal(g) ==
    IF ~config.norm_file
    THEN IF HasEngine
         THEN [grid |-> ("nwall_normal" :> compute_wall_normal) @@ g,
               called |-> {"compute_wall_normal"}]
         ELSE Raise("AttributeError")
    ELSE [grid |-> ("nwall_normal" :> read_norm_surf(config.norm_rows)) @@ g,
          called |-> {}]

\* compute_qty_on with a store rolled back to its raw fields when the engine
\* method raises.
compute_qty_rollback(g, st, q) ==
    LET cn == IF "nwall_normal" \notin DOMAIN g THEN check_normal(g)
              ELSE [grid |-> g, called |-> {}]
    IN  IF Raised(cn)
        THEN [grid |-> g, stats |-> st, outcome |-> "raised",
              result |-> <<>>, called |-> {}]
        ELSE IF Lower(q) \notin COMPUTED_VARIABLES
        THEN [grid |-> cn.grid, stats |-> st, outcome |-> "returned",
              result |-> <<>>, called |-> cn.called]
        ELSE IF ~HasEngine
        THEN [grid |-> cn.grid, stats |-> st, outcome |-> "raised",
              result |-> <<>>, called |-> cn.called]
        ELSE Only({[grid |-> cn.grid,
                    stats |-> IF r.exc = "none" THEN r.st
                              ELSE [b \in DOMAIN st |-> [k \in RawKeys |-> st[b][k]]],
                    outcome |-> "returned",
                    result |-> IF r.exc = "none" THEN Extract(r.st, q) ELSE <<>>,
                    called |-> cn.called \cup {MethodName(q)}] :
                   r \in {Method(MethodName(q), st, cn.grid["nwall_normal"])}})

\* PostProcessMusicaa.compute_qty(qty) on the grid g and the store st: what it
\* leaves behind and how it ends.
compute_qty_on(g, st, q) ==
    LET cn == IF "nwall_normal" \notin DOMAIN g THEN check_normal(g)
              ELSE [grid |-> g, called |-> {}]
    IN  IF Raised(cn)
        THEN [grid |-> g, stats |-> st, outcome |-> "raised",
              result |-> <<>>, called |-> {}]
        ELSE IF Lower(q) \notin COMPUTED_VARIABLES
        THEN [grid |-> cn.grid, stats |-> st, outcome |-> "returned",
              result |-> <<>>, called |-> cn.called]
        ELSE IF ~HasEngine
        THEN [grid |-> cn.grid, stats |-> st, outcome |-> "raised",
              result |-> <<>>, called |-> cn.called]
        ELSE IF MethodName(q) \notin EngineMethods
        THEN [grid |-> cn.grid, stats |-> st, outcome |-> "returned",
              result |-> <<>>, called |-> cn.called]
        ELSE Only({[grid |-> cn.grid, stats |-> r.st, outcome |-> "returned",
                    result |-> IF r.exc = "none" THEN Extract(r.st, q) ELSE <<>>,
                    called |-> cn.called \cup {MethodName(q)}] :
                   r \in {Method(MethodName(q), st, cn.grid["nwall_normal"])}})

compute_qty(q) == compute_qty_on(grid, stats, q)

\* ------------------------------------------------------------- the inputs
Profiles == {"over", "bl", "hole", "sep"}

\* Mean streamwise velocity uu[i, j] of a profile.
\*   over: 4 + j, already above 0.99 ufst at the wall;
\*   bl:   a boundary layer growing to its edge at j = 2;
\*   hole: bl with a dead station i = 1 (zero velocity over the whole column);
\*   sep:  reversed flow at j = 1.
UU(p, i, j) ==
    CASE p = "over" -> 4 + j
      [] p = "bl"   -> 2 * MinOf(j, 2)
      [] p = "hole" -> IF i = 1 THEN 0 ELSE 2 * MinOf(j, 2)
      [] p = "sep"  -> IF j = 0 THEN 0 ELSE IF j = 1 THEN -1 ELSE 2

\* duy[i, j], so that rho*duy = rho * W and the vorticity is -W.
W(p, i, j) ==
    CASE p = "over" -> 0
      [] p = "bl"   -> IF j < 2 THEN 1 ELSE 0
      [] p = "hole" -> IF i = 1 THEN 0 ELSE IF j < 2 THEN 1 ELSE 0
      [] p = "sep"  -> 0

Field(nx, ny, f(_, _)) == [i \in Idx(nx) |-> [j \in Idx(ny) |-> f(i, j)]]

\* The raw Statistics Field of a block with profile p.
Raw(p, nx, ny) ==
    [k \in RawKeys |->
        CASE k = "uu"      -> Field(nx, ny, LAMBDA i, j : UU(p, i, j))
          [] k = "rho"     -> Field(nx, ny, LAMBDA i, j : j + 1)
          [] k = "mu"      -> Field(nx, ny, LAMBDA i, j : j + 2)
          [] k = "rho*duy" -> Field(nx, ny, LAMBDA i, j : (j + 1) * W(p, i, j))
          [] OTHER         -> Field(nx, ny, LAMBDA i, j : 0)]

\* A block: its two boundary-condition flags and its profile.  A block without
\* a no-slip wall takes every profile in single-block sessions.
Flavours(nb) ==
    {<<"0", "-", p>> : p \in Profiles}
    \cup (IF nb = 1 THEN {<<"0", "s", p>> : p \in Profiles}
                         \cup {<<"1", "-", p>> : p \in Profiles}
                         \cup {<<"1", "s", p>> : p \in Profiles}
          ELSE {<<"0", "s", "bl">>, <<"1", "-", "sep">>})

\* (is_curv, full_3d): 2D curvilinear, cartesian, fully 3D curvilinear.
GridKinds == {<<"T", FALSE>>, <<"F", FALSE>>, <<"T", TRUE>>}

\* Columns 2:5 of norm_surf.dat: (0, 1, 0) on block 1, (1, 0, 0) elsewhere.
NormRows(nb, nx) ==
    [r \in Idx(nb * nx) |-> IF r < nx THEN <<0, 1, 0>> ELSE <<1, 0, 0>>]

\* Wall-normal points of the blocks: deep blocks in single-block sessions only.
Depths(nb) == IF nb = 1 THEN {NY, NYDeep} ELSE {NY}

\* ReadGrid.read_grid with config["grid"]["full_3d"] left unset (no session
\* of the model sets it): a cartesian grid is read as the 1-D arrays x of
\* length nx and y of length ny, a curvilinear one as 2-D fields of shape
\* (nx, ny).
GridX(is_curv, b, nx, ny) ==
    IF is_curv = "F" THEN [i \in Idx(nx) |-> (b - 1) * nx + i]
    ELSE Field(nx, ny, LAMBDA i, j : (b - 1) * nx + i)

GridY(is_curv, nx, ny) ==
    IF is_curv = "F" THEN [j \in Idx(ny) |-> j]
    ELSE Field(nx, ny, LAMBDA i, j : j)

Init ==
    \E nb \in 1 .. MaxBloc, gk \in GridKinds, nf \in BOOLEAN :
      \E fl \in [1 .. nb -> Flavours(nb)], ny \in Depths(nb) :
        /\ info = [nbloc |-> nb, is_curv |-> gk[1], Uref |-> UrefVal,
                   Roref |-> RorefVal,
                   nx |-> [b \in 1 .. nb |-> NX], ny |-> [b \in 1 .. nb |-> ny]]
        /\ config = [full_3d |-> gk[2], norm_file |-> nf,
                     norm_rows |-> IF nf THEN NormRows(nb, NX) ELSE <<>>]
        /\ block_info = [b \in 1 .. nb |-> <<fl[b][1], fl[b][2]>>]
        /\ grid = [k \in {"x", "y", "z"} |->
                     [b \in 1 .. nb |->
                        CASE k = "x" -> GridX(gk[1], b, NX, ny)
                          [] k = "y" -> GridY(gk[1], NX, ny)
                          [] k = "z" -> [i \in Idx(1) |-> 0]]]
        /\ stats = [b \in 1 .. nb |-> Raw(fl[b][3], NX, ny)]
        /\ outcome = "idle"
        /\ qty = ""
        /\ result = <<>>
        /\ called = {}
        /\ prev_keys = [b \in 1 .. nb |-> RawKeys]
        /\ cv = [phase |-> "off"]
        /\ call = [op |-> "none"]

\* A caller requests the quantity q.
ComputeQty(q) ==
    \E r \in {compute_qty(q)} :
        /\ grid' = r.grid
        /\ stats' = r.stats
        /\ outcome' = r.outcome
        /\ result' = r.result
        /\ called' = r.called
        /\ qty' = q
        /\ prev_keys' = [b \in Blocks |-> DOMAIN stats[b]]
        /\ UNCHANGED <<info, config, block_info, cv, call>>

Next == \E q \in Requests : ComputeQty(q)

Spec == Init /\ [][Next]_vars

\* ------------------------------------- _check_vel_discontinuity on its own
\* A single wall block of CVLen stations; the velocity array is any array over
\* CVVals, the index array one of three patterns.  cv.j is the index array the
\* caller passed as it is now (the function writes into it), cv.j0 its content
\* when it was passed.
CVLen  == 6
CVVals == {0, 1, 2}
CVIdx  == {[i \in Idx(CVLen) |-> 0], [i \in Idx(CVLen) |-> i % 2],
           [i \in Idx(CVLen) |-> IF i < 2 THEN 0 ELSE 1]}

InitCV ==
    \E u \in [Idx(CVLen) -> CVVals], j \in CVIdx :
        /\ info = [nbloc |-> 1, is_curv |-> "T", Uref |-> UrefVal, Roref |-> RorefVal,
                   nx |-> <<CVLen>>, ny |-> <<2>>]
        /\ config = [full_3d |-> FALSE, norm_file |-> FALSE, norm_rows |-> <<>>]
        /\ block_info = << <<"0", "-">> >>
        /\ grid = [k \in {"x", "y"} |->
                     << IF k = "x" THEN Field(CVLen, 2, LAMBDA i, jj : i)
                        ELSE Field(CVLen, 2, LAMBDA i, jj : jj) >>]
        /\ stats = << Raw("over", CVLen, 2) >>
        /\ outcome = "idle"
        /\ qty = ""
        /\ result = <<>>
        /\ called = {}
        /\ prev_keys = << RawKeys >>
        /\ cv = [phase |-> "input", u |-> ToQ(u), j |-> j, j0 |-> j]
        /\ call = [op |-> "none"]

\* First application, to the input.
ApplyCheck ==
    /\ cv.phase = "input"
    /\ \E r \in {check_vel_discontinuity(cv.u, cv.j, 1)} :
         cv' = [phase |-> "once", u |-> cv.u, j0 |-> cv.j0,
                j |-> IF Raised(r) THEN cv.j ELSE r.j,
                out |-> r]
    /\ UNCHANGED <<info, config, block_info, grid, stats, outcome, qty, result,
                   called, prev_keys, call>>

\* Second application, to what the first returned when every velocity of it
\* is a known rational.  The index array returned is the array passed, so
\* this call writes into it again.
ApplyCheckAgain ==
    /\ cv.phase = "once"
    /\ ~Raised(cv.out)
    /\ \A k \in DOMAIN cv.out.u : IsExact(cv.out.u[k])
    /\ \E r \in {check_vel_discontinuity(cv.out.u, cv.j, 1)} :
         cv' = [phase |-> "twice", u |-> cv.u, j0 |-> cv.j0,
                j |-> IF Raised(r) THEN cv.j ELSE r.j,
                out |-> cv.out, again |-> r]
    /\ UNCHANGED <<info, config, block_info, grid, stats, outcome, qty, result,
                   called, prev_keys, call>>

NextCV == ApplyCheck \/ ApplyCheckAgain

SpecCV == InitCV /\ [][NextCV]_vars

\* --------------------------------------- engine functions on their own
\* A session of one wall block of nx stations and ny wall-normal points whose
\* Statistics Field is st, before any request.
Bench(nx, ny, st) ==
    /\ info = [nbloc |-> 1, is_curv |-> "T", Uref |-> UrefVal, Roref |-> RorefVal,
               nx |-> <<nx>>, ny |-> <<ny>>]
    /\ config = [full_3d |-> FALSE, norm_file |-> FALSE, norm_rows |-> <<>>]
    /\ block_info = << <<"0", "-">> >>
    /\ grid = [k \in {"x", "y"} |->
                 << IF k = "x" THEN Field(nx, ny, LAMBDA i, j : i)
                    ELSE Field(nx, ny, LAMBDA i, j : j) >>]
    /\ stats = << st >>
    /\ outcome = "idle"
    /\ qty = ""
    /\ result = <<>>
    /\ called = {}
    /\ prev_keys = << RawKeys >>
    /\ cv = [phase |-> "off"]

\* _momentum_thickness on a wall block holding its prerequisites: ufst is any
\* array of velocities of the block, j99 any array of indices, rho_fst the
\* density at those indices.  ny = 1 is the grid without a cell to integrate.
InitMT ==
    \E ny \in {1, NY} :
      \E u \in [Idx(NX) -> {0, 2, 4}], j \in [Idx(NX) -> Idx(ny)] :
        /\ Bench(NX, ny, ("ufst" :> Arr(u)) @@ ("j99" :> Arr(j))
                         @@ ("rho_fst" :> Arr([i \in Idx(NX) |-> j[i] + 1]))
                         @@ Raw("bl", NX, ny))
        /\ call = [op |-> "input"]

ApplyMomentum ==
    /\ call.op = "input"
    /\ call' = [op |-> "momentum_thickness", out |-> momentum_thickness(stats, 1)]
    /\ UNCHANGED <<info, config, block_info, grid, stats, outcome, qty, result,
                   called, prev_keys, cv>>

NextMT == ApplyMomentum

SpecMT == InitMT /\ [][NextMT]_vars

\* _d99_thickness on a wall block holding ufst, given a wall-normal field that
\* is None, the fallback dict of compute_wall_normal or the array read from
\* norm_surf.dat.
NormalKinds == {"None", "dict", "array"}

NormalInput(k) ==
    CASE k = "None"  -> [kind |-> "None"]
      [] k = "dict"  -> compute_wall_normal
      [] k = "array" -> read_norm_surf(NormRows(1, NX))

InitD99 ==
    \E p \in Profiles, u \in [Idx(NX) -> {0, 2, 4}], k \in NormalKinds :
        /\ Bench(NX, NY, ("ufst" :> Arr(u)) @@ Raw(p, NX, NY))
        /\ call = [op |-> "input", normal_w |-> NormalInput(k)]

ApplyD99 ==
    /\ call.op = "input"
    /\ call' = [op |-> "d99_thickness", normal_w |-> call.normal_w,
                out |-> d99_thickness(stats, 1, call.normal_w)]
    /\ UNCHANGED <<info, config, block_info, grid, stats, outcome, qty, result,
                   called, prev_keys, cv>>

NextD99 == ApplyD99

SpecD99 == InitD99 /\ [][NextD99]_vars

\* compute_wall_normal on its own: any number of blocks, each with its own nx
\* and its own boundary conditions (wall, slip wall, no wall).
BCKinds == {<<"0", "-">>, <<"0", "s">>, <<"1", "-">>}

InitWN ==
    \E nb \in 1 .. MaxBloc :
      \E nxs \in [1 .. nb -> 1 .. NX], bc \in [1 .. nb -> BCKinds] :
        /\ info = [nbloc |-> nb, is_curv |-> "T", Uref |-> UrefVal, Roref |-> RorefVal,
                   nx |-> nxs, ny |-> [b \in 1 .. nb |-> NY]]
        /\ config = [full_3d |-> FALSE, norm_file |-> FALSE, norm_rows |-> <<>>]
        /\ block_info = bc
        /\ grid = [k \in {"x", "y"} |->
                     [b \in 1 .. nb |->
                        IF k = "x" THEN Field(nxs[b], NY, LAMBDA i, j : i)
                        ELSE Field(nxs[b], NY, LAMBDA i, j : j)]]
        /\ stats = [b \in 1 .. nb |-> Raw("bl", nxs[b], NY)]
        /\ outcome = "idle"
        /\ qty = ""
        /\ result = <<>>
        /\ called = {}
        /\ prev_keys = [b \in 1 .. nb |-> RawKeys]
        /\ cv = [phase |-> "off"]
        /\ call = [op |-> "input"]

ApplyWallNormal ==
    /\ call.op = "input"
    /\ call' = [op |-> "compute_wall_normal", out |-> compute_wall_normal]
    /\ UNCHANGED <<info, config, block_info, grid, stats, outcome, qty, result,
                   called, prev_keys, cv>>

NextWN == ApplyWallNormal

SpecWN == InitWN /\ [][NextWN]_vars

\* ------------------------------------------- two computations interleaved
\* Two threads call compute_qty on one engine, whose single block has a wall
\* and whose wall-normal field is already read from norm_surf.dat: thread a
\* asks for delta or theta, thread b for another quantity.  No lock is held,
\* so a thread may be suspended between any two of its accesses to the shared
\* store.  A step of a thread is therefore one presence check (_in_stats), one
\* read of a stored value another thread may change, or one write of a key;
\* what lies between two such accesses uses the raw fields and the locals of
\* the thread only and belongs to the step that follows it.
\*
\* What another thread can change under a reader: the key j99 (written by
\* compute_ufst and by compute_d99), the key rho_fst, and entry 0 of ufst (the
\* search leaves it 0 and the hotfix of compute_ufst overwrites it in place;
\* the other entries of ufst are the same in every array compute_ufst stores).
\* So the stations i >= 1 of a loop over ufst[i] are evaluated in one step and
\* station 0 read by read.
\*
\* call.hit records what the accesses to prerequisite keys ran into in the
\* other thread: a write between its presence check and its use of the
\* prerequisites ("check-use"); a check, read or write between two stores of
\* one of its methods ("half-stored").
\*
\* A thread is [q, pc, ret, loc, res, shares]: the quantity asked for, its
\* position, the positions its pending calls return to, its locals, the
\* mapping compute_qty returned, and whether the array in that mapping is the
\* very array the store holds under ufst.
RaceFirst == {"delta", "theta"}
RaceOther == {"ufst", "d99", "rhofst", "tauw"}
Threads   == {"a", "b"}

\* getattr(self.compute, "compute_" + qty)(): the first shared access of the
\* method.
StartPc(q) ==
    CASE q = "ufst"   -> "U_eval"
      [] q = "d99"    -> "D_chk"
      [] q = "rhofst" -> "R_chk"
      [] q = "tauw"   -> "T_rho"
      [] OTHER        -> "P_chk_u"

NewThread(q) ==
    [q |-> q, pc |-> StartPc(q), ret |-> <<"extract">>, res |-> <<>>, shares |-> FALSE,
     loc |-> [wj |-> 0, d0 |-> <<0, 1>>, i |-> 0, cj |-> 0, bound |-> 0,
              r2 |-> 0, r3 |-> 0, r4 |-> 0, tgt |-> "none",
              theta |-> [i \in Idx(NX) |-> <<0, 1>>]]]

\* compute_* with the presence check of d99 made on the key j99.
CheckKeyJ99(pc) ==
    CASE pc = "D_chk"   -> "ufst"
      [] pc = "R_chk"   -> "ufst"
      [] pc = "P_chk_u" -> "ufst"
      [] pc = "P_chk_d" -> "j99"
      [] pc = "P_chk_r" -> "rho_fst"

\* The presence checks: the key looked up, the position of the method called
\* when the key is missing, and the position that follows.
CheckKey(pc) ==
    CASE pc = "D_chk"   -> "ufst"
      [] pc = "R_chk"   -> "ufst"
      [] pc = "P_chk_u" -> "ufst"
      [] pc = "P_chk_d" -> "d99"
      [] pc = "P_chk_r" -> "rho_fst"

CheckBody(pc) ==
    CASE pc = "D_chk"   -> "U_eval"
      [] pc = "R_chk"   -> "U_eval"
      [] pc = "P_chk_u" -> "U_eval"
      [] pc = "P_chk_d" -> "D_chk"
      [] pc = "P_chk_r" -> "R_chk"

CheckAfter(pc, q) ==
    CASE pc = "D_chk"   -> "D_cond"
      [] pc = "R_chk"   -> "R_eval"
      [] pc = "P_chk_u" -> "P_chk_d"
      [] pc = "P_chk_d" -> "P_chk_r"
      [] pc = "P_chk_r" -> IF q = "delta" THEN "L_eval" ELSE "M_bound"

CheckLabels  == {"D_chk", "R_chk", "P_chk_u", "P_chk_d", "P_chk_r"}
EvalLabels   == {"U_eval", "R_eval", "T_rho", "T_ufst", "L_eval", "D_rest"}
WalkLabels   == {"D_cond", "D_body"}
ReadLabels   == {"M_bound", "M_r1", "M_r2", "M_r3", "M_r4", "M_r5"}
StoreLabels  == {"U_put_u", "U_put_j", "D_put_d", "D_put_j", "R_put",
                 "T_put_t", "T_put_c", "L_put", "M_put"}
HotfixLabels == {"U_hot_chk", "U_hot_tgt", "U_hot_wr"}

\* The thread th at position nxt ("ret": back in its caller).
Goto(th, nxt) ==
    IF nxt = "ret" THEN [th EXCEPT !.pc = Head(th.ret), !.ret = Tail(th.ret)]
    ELSE [th EXCEPT !.pc = nxt]

\* An exception leaves the method; compute_qty catches it and returns {}.
Fail(th) == [th EXCEPT !.pc = "done", !.ret = <<>>, !.res = <<>>]

\* Whether thread b ran before thread a began, after it ended, or between two
\* steps of it.
Slot(t) ==
    LET a == call.th["a"]
        b == call.th["b"]
    IN  IF t = "b"
        THEN IF b.pc # StartPc(b.q) THEN call.slot
             ELSE IF a.pc = StartPc(a.q) THEN "before"
             ELSE IF a.pc = "done" THEN "after"
             ELSE "inside"
        ELSE IF b.pc # StartPc(b.q) /\ b.pc # "done" THEN "inside" ELSE call.slot

\* compute_tauw up to its read of rho_fst: the tangent is built from the
\* wall-normal field first.
TauwRho(st, nw) ==
    Only({IF Raised(nb) THEN nb
          ELSE IF Raised(Tangent(nb, 1)) THEN Tangent(nb, 1)
          ELSE IF ~Has(st, 1, "rho_fst") THEN Raise("KeyError")
          ELSE [trho |-> st[1]["rho_fst"]] : nb \in {NormalOfBlock(nw, 1)}})

\* _d99_thickness after station 0, whose thickness and index are the locals
\* d0 and wj of the thread.
D99Rest(th, st, nw) ==
    Only({IF Raised(r) THEN r
          ELSE [d99 |-> Arr([i \in Idx(NX) |-> IF i = 0 THEN th.loc.d0 ELSE r.d99.v[i]]),
                j99 |-> Arr([i \in Idx(NX) |-> IF i = 0 THEN th.loc.wj ELSE r.j99.v[i]])] :
            r \in {D99Stations(st, 1, nw, 1)}})

\* What a thread evaluates in one step from the store as it is now: the
\* locals it sets, or the exception.
EvalAt(th, st, nw) ==
    CASE th.pc = "U_eval" -> freestream_velocity(st, 1)
      [] th.pc = "R_eval" -> RhofstBlock(st, 1)
      [] th.pc = "T_rho"  -> TauwRho(st, nw)
      [] th.pc = "T_ufst" -> TauwBlock(Put(st, 1, "rho_fst", th.loc.trho), 1, nw)
      [] th.pc = "L_eval" -> DeltaBlock(st, 1)
      [] th.pc = "D_rest" -> D99Rest(th, st, nw)

\* The statement that follows a step which neither checks nor branches.
StepNext(pc) ==
    CASE pc = "U_eval"  -> "U_put_u"
      [] pc = "U_put_u" -> "U_put_j"
      [] pc = "U_put_j" -> "U_hot_chk"
      [] pc = "U_hot_wr" -> "ret"
      [] pc = "R_eval"  -> "R_put"
      [] pc = "R_put"   -> "ret"
      [] pc = "D_rest"  -> "D_put_d"
      [] pc = "D_put_d" -> "D_put_j"
      [] pc = "D_put_j" -> "ret"
      [] pc = "T_rho"   -> "T_ufst"
      [] pc = "T_ufst"  -> "T_put_t"
      [] pc = "T_put_t" -> "T_put_c"
      [] pc = "T_put_c" -> "ret"
      [] pc = "L_eval"  -> "L_put"
      [] pc = "L_put"   -> "ret"
      [] pc = "M_put"   -> "ret"

\* self.stats[block_id][key] = value: the key and the value of a store step.
StoreKey(pc) ==
    CASE pc = "U_put_u" -> "ufst"
      [] pc = "U_put_j" -> "j99"
      [] pc = "D_put_d" -> "d99"
      [] pc = "D_put_j" -> "j99"
      [] pc = "R_put"   -> "rho_fst"
      [] pc = "T_put_t" -> "tauw"
      [] pc = "T_put_c" -> "cf"
      [] pc = "L_put"   -> "deltas"
      [] pc = "M_put"   -> "theta"

StoreVal(th) ==
    CASE th.pc = "U_put_u" -> Arr(th.loc.u)
      [] th.pc = "U_put_j" -> Arr(th.loc.j)
      [] th.pc = "D_put_d" -> th.loc.d99
      [] th.pc = "D_put_j" -> th.loc.j99
      [] th.pc = "R_put"   -> th.loc.rho_fst
      [] th.pc = "T_put_t" -> th.loc.tauw
      [] th.pc = "T_put_c" -> th.loc.cf
      [] th.pc = "L_put"   -> th.loc.deltas
      [] th.pc = "M_put"   -> Arr(th.loc.theta)

\* (arg1 + arg2) / 2 * distance at cell j of station 0, the four freestream
\* velocities read one after the other: arg = uu / r * (1 - uu / r').
ThetaCellRead(st, j, r2, r3, r4, r5) ==
    LET u(jj) == <<st[1]["uu"][0][jj], 1>>
        arg(jj, r, rr) == RMul(RDiv(u(jj), <<r, 1>>),
                               RSub(<<1, 1>>, RDiv(u(jj), <<rr, 1>>)))
    IN  RMulInt(RDiv(RAdd(arg(j, r2, r3), arg(j + 1, r4, r5)), <<2, 1>>),
                Dist(1, 0, j, j + 1))

\* The thread after station th.loc.i of _momentum_thickness.
NextStation(th) ==
    IF th.loc.i + 1 >= NX THEN [th EXCEPT !.pc = "M_put"]
    ELSE [th EXCEPT !.pc = "M_bound", !.loc.i = @ + 1]

\* return np.zeros(nx) at the first cell that finds ufst[i] == 0.
ThetaZero(th) ==
    [th EXCEPT !.pc = "M_put", !.loc.theta = [i \in Idx(NX) |-> <<0, 1>>]]

\* One read of _momentum_thickness.  M_bound: the range of station i from
\* j99[i]; a station i >= 1 is integrated there.  M_r1: the test ufst[0] == 0
\* of a cell.  M_r2..M_r5: the four reads of ufst[0] in arg1 and arg2, the
\* last one followed by the sum into theta[0].
ThetaRead(th, st) ==
    LET i == th.loc.i
        U == st[1]["ufst"].v[0]
    IN  CASE th.pc = "M_bound" ->
               IF ~Has(st, 1, "j99") \/ st[1]["j99"].kind # "array" THEN Fail(th)
               ELSE IF ThetaCells(st, 1, i) <= 0 THEN NextStation(th)
               ELSE IF i = 0
                    THEN [th EXCEPT !.pc = "M_r1", !.loc.cj = 0,
                                    !.loc.bound = ThetaCells(st, 1, 0)]
               ELSE IF st[1]["ufst"].v[i] = 0 THEN ThetaZero(th)
               ELSE NextStation([th EXCEPT !.loc.theta[i] =
                                    ThetaSum(st, 1, i, ThetaCells(st, 1, i))])
          [] th.pc = "M_r1" -> IF U = 0 THEN ThetaZero(th) ELSE [th EXCEPT !.pc = "M_r2"]
          [] th.pc = "M_r2" -> [th EXCEPT !.pc = "M_r3", !.loc.r2 = U]
          [] th.pc = "M_r3" -> [th EXCEPT !.pc = "M_r4", !.loc.r3 = U]
          [] th.pc = "M_r4" -> [th EXCEPT !.pc = "M_r5", !.loc.r4 = U]
          [] th.pc = "M_r5" ->
               Only({IF th.loc.cj + 1 < th.loc.bound
                     THEN [t2 EXCEPT !.pc = "M_r1", !.loc.cj = @ + 1]
                     ELSE NextStation(t2) :
                     t2 \in {[th EXCEPT
                                !.loc.theta[0] =
                                    RAdd(@, ThetaCellRead(st, th.loc.cj, th.loc.r2,
                                                          th.loc.r3, th.loc.r4, U)),
                                !.loc.r2 = 0, !.loc.r3 = 0, !.loc.r4 = 0]}})

\* One step of the while loop of _d99_thickness at station 0.  D_cond: the
\* condition, which reads ufst[0], then j += 1.  D_body: the body, which reads
\* ufst[0] again for l_j and sets d99[0].
WalkAt(th, st, nw) ==
    IF th.pc = "D_cond"
    THEN IF 100 * st[1]["uu"][0][th.loc.wj] < EdgePct * st[1]["ufst"].v[0]
            /\ th.loc.wj < nyOf(1) - 1
         THEN [th EXCEPT !.pc = "D_body", !.loc.wj = @ + 1]
         ELSE [th EXCEPT !.pc = "D_rest"]
    ELSE Only({IF Raised(n) THEN Fail(th)
               ELSE [th EXCEPT !.pc = "D_cond",
                               !.loc.d0 = RAbs(RMulInt(ArcAtEdge(st, 1, 0, th.loc.wj),
                                                       n.val))] :
               n \in {NormalY(nw, 0)}})

\* A thread is between a prerequisite presence check and its use of the
\* prerequisites: it has made the first _in_stats check of the method it was
\* asked for and the last statement of that method that reads ufst, j99, d99
\* or rho_fst has not ended (compute_ufst and compute_tauw check nothing).
BetweenCheckAndUse(th) ==
    /\ th.q \in {"delta", "theta", "d99", "rhofst"}
    /\ th.pc \notin {StartPc(th.q), "extract", "done"}
    /\ ~(Len(th.ret) = 1 /\ th.pc \in {"M_put", "L_put", "D_put_d", "D_put_j", "R_put"})

\* A thread has stored part of what the method it is in stores under
\* prerequisite keys: compute_ufst after the store of ufst, until its hotfix
\* has ended; compute_d99 between the store of d99 and the store of j99.
HalfStored(th) ==
    th.pc \in {"U_put_j", "U_hot_chk", "U_hot_tgt", "U_hot_wr", "D_put_j"}

\* The statement at the position of th writes a prerequisite key: a store
\* under ufst, j99, d99 or rho_fst, or the write of the hotfix into ufst.
WritesPrerequisite(th) ==
    \/ th.pc \in StoreLabels /\ StoreKey(th.pc) \in {"ufst", "j99", "d99", "rho_fst"}
    \/ th.pc = "U_hot_wr"

\* The statement at the position of th checks or reads a prerequisite key
\* (compute_ufst evaluates from the raw fields only; the mapping returned for
\* ufst and d99 is read from the store under the name asked for, which is a
\* prerequisite key).
ReadsPrerequisite(th) ==
    \/ th.pc \in CheckLabels \cup WalkLabels \cup ReadLabels
    \/ th.pc \in EvalLabels \ {"U_eval"}
    \/ th.pc \in {"U_hot_chk", "U_hot_tgt"}
    \/ th.pc = "extract" /\ th.q \in {"ufst", "d99"}

\* What the statement thread `me` is about to execute runs into, in the
\* other thread th: a write between the presence check and the use of th,
\* a check, read or write between two stores of one method of th.
Overlap(me, th) ==
    (IF WritesPrerequisite(me) /\ BetweenCheckAndUse(th) THEN {"check-use"} ELSE {})
    \cup (IF (WritesPrerequisite(me) \/ ReadsPrerequisite(me)) /\ HalfStored(th)
          THEN {"half-stored"} ELSE {})

OtherThread(t) == IF t = "a" THEN "b" ELSE "a"

\* Thread t has taken a step that left it as th and the other thread alone.
Moves(t, th) ==
    call' = [call EXCEPT !.th = [@ EXCEPT ![t] = th], !.slot = Slot(t),
                         !.hit = @ \cup Overlap(call.th[t], call.th[OtherThread(t)])]

InitRace ==
    \E p \in Profiles, ny \in {NY, NYDeep}, a \in RaceFirst, b \in RaceOther :
        /\ info = [nbloc |-> 1, is_curv |-> "T", Uref |-> UrefVal, Roref |-> RorefVal,
                   nx |-> <<NX>>, ny |-> <<ny>>]
        /\ config = [full_3d |-> FALSE, norm_file |-> TRUE,
                     norm_rows |-> NormRows(1, NX)]
        /\ block_info = << <<"0", "-">> >>
        /\ grid = [k \in {"x", "y", "nwall_normal"} |->
                     CASE k = "x" -> << Field(NX, ny, LAMBDA i, j : i) >>
                       [] k = "y" -> << Field(NX, ny, LAMBDA i, j : j) >>
                       [] k = "nwall_normal" -> read_norm_surf(NormRows(1, NX))]
        /\ stats = << Raw(p, NX, ny) >>
        /\ outcome = "idle"
        /\ qty = ""
        /\ result = <<>>
        /\ called = {}
        /\ prev_keys = << RawKeys >>
        /\ cv = [phase |-> "off"]
        /\ call = [op |-> "race", slot |-> "none", cur |-> "none", hit |-> {},
                   st0 |-> << Raw(p, NX, ny) >>,
                   th |-> [a |-> NewThread(a), b |-> NewThread(b)]]

\* `if not self._in_stats(key):` and, when the key is missing, the call.
RaceCheck ==
    /\ call.op = "race"
    /\ \E t \in Threads :
         /\ call.th[t].pc \in CheckLabels
         /\ Moves(t, IF in_stats(stats, CheckKey(call.th[t].pc))
                     THEN Goto(call.th[t], CheckAfter(call.th[t].pc, call.th[t].q))
                     ELSE [call.th[t] EXCEPT
                             !.pc = CheckBody(call.th[t].pc),
                             !.ret = <<CheckAfter(call.th[t].pc, call.th[t].q)>> \o @])
    /\ UNCHANGED <<info, config, block_info, grid, stats, outcome, qty, result,
                   called, prev_keys, cv>>

\* A thread evaluates, from the store as it is now, values it keeps in locals.
RaceEval ==
    /\ call.op = "race"
    /\ \E t \in Threads :
         /\ call.th[t].pc \in EvalLabels
         /\ \E r \in {EvalAt(call.th[t], stats, grid["nwall_normal"])} :
              Moves(t, IF Raised(r) THEN Fail(call.th[t])
                       ELSE [Goto(call.th[t], StepNext(call.th[t].pc))
                               EXCEPT !.loc = r @@ @])
    /\ UNCHANGED <<info, config, block_info, grid, stats, outcome, qty, result,
                   called, prev_keys, cv>>

\* One step of the walk of _d99_thickness at station 0.
RaceWalk ==
    /\ call.op = "race"
    /\ \E t \in Threads :
         /\ call.th[t].pc \in WalkLabels
         /\ Moves(t, WalkAt(call.th[t], stats, grid["nwall_normal"]))
    /\ UNCHANGED <<info, config, block_info, grid, stats, outcome, qty, result,
                   called, prev_keys, cv>>

\* One read of _momentum_thickness.
RaceRead ==
    /\ call.op = "race"
    /\ \E t \in Threads :
         /\ call.th[t].pc \in ReadLabels
         /\ Moves(t, ThetaRead(call.th[t], stats))
    /\ UNCHANGED <<info, config, block_info, grid, stats, outcome, qty, result,
                   called, prev_keys, cv>>

\* A thread writes one key of block 1.  call.cur names the thread whose array
\* the store holds under ufst; a new array there is no longer the array a
\* returned mapping holds.
RaceStore ==
    /\ call.op = "race"
    /\ \E t \in Threads :
         /\ call.th[t].pc \in StoreLabels
         /\ stats' = Put(stats, 1, StoreKey(call.th[t].pc), StoreVal(call.th[t]))
         /\ call' = [call EXCEPT
                       !.th = [u \in Threads |->
                                 IF u = t THEN Goto(call.th[t], StepNext(call.th[t].pc))
                                 ELSE IF call.th[t].pc = "U_put_u"
                                 THEN [call.th[u] EXCEPT !.shares = FALSE]
                                 ELSE call.th[u]],
                       !.slot = Slot(t),
                       !.cur = IF call.th[t].pc = "U_put_u" THEN t ELSE @,
                       !.hit = @ \cup Overlap(call.th[t], call.th[OtherThread(t)])]
    /\ UNCHANGED <<info, config, block_info, grid, outcome, qty, result,
                   called, prev_keys, cv>>

\* The hotfix of compute_ufst, statement by statement: the test of ufst[0];
\* the look-up of the array to write into; the write ufst[0] = ufst[1] into
\* that array.  When the store holds another array by then, the write goes to
\* an array nothing refers to any more; otherwise a mapping returned to the
\* other thread may hold the array written.
RaceHotfix ==
    /\ call.op = "race"
    /\ \E t \in Threads :
         /\ call.th[t].pc \in HotfixLabels
         /\ CASE call.th[t].pc = "U_hot_chk" ->
                   /\ Moves(t, Goto(call.th[t], IF stats[1]["ufst"].v[0] = 0
                                                THEN "U_hot_tgt" ELSE "ret"))
                   /\ stats' = stats
              [] call.th[t].pc = "U_hot_tgt" ->
                   /\ Moves(t, [call.th[t] EXCEPT !.pc = "U_hot_wr", !.loc.tgt = call.cur])
                   /\ stats' = stats
              [] call.th[t].pc = "U_hot_wr" /\ call.th[t].loc.tgt # call.cur ->
                   /\ Moves(t, Goto(call.th[t], "ret"))
                   /\ stats' = stats
              [] call.th[t].pc = "U_hot_wr" /\ call.th[t].loc.tgt = call.cur ->
                   /\ stats' = [stats EXCEPT ![1]["ufst"].v[0] = stats[1]["ufst"].v[1]]
                   /\ call' = [call EXCEPT
                         !.th = [u \in Threads |->
                                   IF u = t THEN Goto(call.th[t], "ret")
                                   ELSE IF call.th[u].shares
                                   THEN [call.th[u] EXCEPT
                                           !.res[1].v[0] = stats[1]["ufst"].v[1]]
                                   ELSE call.th[u]],
                         !.slot = Slot(t),
                         !.hit = @ \cup Overlap(call.th[t], call.th[OtherThread(t)])]
    /\ UNCHANGED <<info, config, block_info, grid, outcome, qty, result,
                   called, prev_keys, cv>>

\* The method has returned: compute_qty builds its result from the store.
RaceReturn ==
    /\ call.op = "race"
    /\ \E t \in Threads :
         /\ call.th[t].pc = "extract"
         /\ Moves(t, [call.th[t] EXCEPT !.pc = "done",
                                        !.res = Extract(stats, call.th[t].q),
                                        !.shares = (call.th[t].q = "ufst")])
    /\ UNCHANGED <<info, config, block_info, grid, stats, outcome, qty, result,
                   called, prev_keys, cv>>

NextRace ==
    RaceCheck \/ RaceEval \/ RaceWalk \/ RaceRead \/ RaceStore \/ RaceHotfix \/ RaceReturn

SpecRace == InitRace /\ [][NextRace]_vars

\* ------------------------------------------------ ReadStats.stats_orienter
\* A case name is a spelling of a lowercase base name: all lowercase, all
\* uppercase or mixed.  The empty name has a single spelling.
LetterCases == {"lower", "upper", "mixed"}

\* ReadStats._accepeted_cases
AcceptedCases == {"tgv", "chit", "cavity flow", "actuator", "shit", "stbl",
                  "chan", "turb", "cylindre", "periodic hill"}

CaseNames ==
    {[base |-> b, spelt |-> s] : b \in AcceptedCases \cup {"invalid_case"},
                                 s \in LetterCases}
    \cup {[base |-> "", spelt |-> "lower"]}

\* str.lower()
lower(name) == [name EXCEPT !.spelt = "lower"]

\* The static methods of StatsReader, by the part of their name after stats_.
StatsReaderMethods == {"stbl", "chan", "turb"}

\* hasattr(StatsReader, f"stats_{name}"): attribute names are case sensitive.
HasStatsMethod(name) == name.spelt = "lower" /\ name.base \in StatsReaderMethods

\* stats_orienter on an object whose _case is case_: the method returned and
\* whether logger.error was called.
stats_orienter(case_) ==
    IF ~HasStatsMethod(case_)
    THEN [method |-> "stats_stbl", error |-> TRUE]
    ELSE [method |-> "stats_" \o case_.base, error |-> FALSE]

\* ReadStats(directory, case, info): _case = case.lower()
InitSO ==
    \E name \in CaseNames :
        /\ Bench(NX, NY, Raw("bl", NX, NY))
        /\ call = [op |-> "ReadStats", given |-> name, case |-> lower(name)]

\* reader.case = value: rejected unless value.lower() is an accepted case,
\* stored as given otherwise.
SetCase ==
    \E value \in CaseNames :
        /\ call' = IF lower(value).base \notin AcceptedCases
                   THEN [op |-> "ValueError", given |-> call.given, case |-> call.case]
                   ELSE [op |-> "case", given |-> value, case |-> value]
        /\ UNCHANGED <<info, config, block_info, grid, stats, outcome, qty, result,
                       called, prev_keys, cv>>

Orient ==
    /\ call.op # "stats_orienter"
    /\ call' = [op |-> "stats_orienter", given |-> call.given, case |-> call.case,
                out |-> stats_orienter(call.case)]
    /\ UNCHANGED <<info, config, block_info, grid, stats, outcome, qty, result,
                   called, prev_keys, cv>>

NextSO == SetCase \/ Orient

SpecSO == InitSO /\ [][NextSO]_vars

\* ------------------------------------------------------ ReadPlanes.read_2d
\* A binary file is the number of float64 values it holds, or cannot be
\* opened.  A snapshot is recorded by its shape and by the position in the
\* file of its first value.
MaxVals == 8
MaxN == 2
MaxVar == 3

Min(a, b) == IF a < b THEN a ELSE b

\* The loop of read_2d from file position pos, about to read variable i of
\* record ind: np.fromfile returns at most n1 * n2 values, reshape raises
\* ValueError on any other number of values and the loop breaks with what was
\* stored so far.
RECURSIVE ReadRecords(_, _, _, _, _, _, _)
ReadRecords(len, n1, n2, nvar, pos, i, data) ==
    IF i > nvar THEN ReadRecords(len, n1, n2, nvar, pos, 1, data)
    ELSE IF Min(n1 * n2, len - pos) # n1 * n2 THEN data
    ELSE ReadRecords(len, n1, n2, nvar, pos + n1 * n2, i + 1,
                     [data EXCEPT ![i] = Append(@, [shape |-> <<n1, n2>>, at |-> pos])])

\* read_2d(filename, n1, n2, nvar): None when open fails, else the dict
\* var1..var<nvar>, each the snapshots stored under ind = 0, 1, ...
read_2d(file, n1, n2, nvar) ==
    IF ~file.opens THEN NoneVal
    ELSE [kind |-> "dict",
          v |-> ReadRecords(file.len, n1, n2, nvar, 0, 1, [i \in 1..nvar |-> <<>>])]

InitR2 ==
    \E opens \in BOOLEAN, len \in 0..MaxVals, n1 \in 1..MaxN, n2 \in 1..MaxN,
       nvar \in 1..MaxVar :
        /\ Bench(NX, NY, Raw("bl", NX, NY))
        /\ call = [op |-> "input", file |-> [opens |-> opens, len |-> len],
                   n1 |-> n1, n2 |-> n2, nvar |-> nvar]

ApplyRead2d ==
    /\ call.op = "input"
    /\ call' = [call EXCEPT !.op = "read_2d"]
               @@ [out |-> read_2d(call.file, call.n1, call.n2, call.nvar)]
    /\ UNCHANGED <<info, config, block_info, grid, stats, outcome, qty, result,
                   called, prev_keys, cv>>

NextR2 == ApplyRead2d

SpecR2 == InitR2 /\ [][NextR2]_vars

\* ------------------------------------------ PreProcessPlanes._value_planes
\* The plane information holds block 1 with plane 1, of nvar variables named
\* var1..var<nvar> and of some normal.  The planes data is empty, holds the
\* snapshots of that plane, holds those of its first variable only, or holds
\* another block only.  A stored array is its shape.
AbsentId == 99
PlaneVarNames == <<"uu", "vv", "pp">>
PlanesKinds == {"empty", "read", "first variable", "other block"}
StoredShape == <<2, 3>>

\* One variable of a plane: snapshot id -> array.
Snapshots == (1 :> StoredShape)

PlaneInfo(nvar, normal) ==
    (1 :> (1 :> [nvar |-> nvar, normal |-> normal,
                 var |-> [i \in 1..nvar |-> PlaneVarNames[i]]]))

PlanesData(kind, nvar) ==
    IF kind = "empty" THEN [b \in {} |-> 0]
    ELSE IF kind = "read"
    THEN (1 :> (1 :> [name \in {PlaneVarNames[i] : i \in 1..nvar} |-> Snapshots]))
    ELSE IF kind = "first variable"
    THEN (1 :> (1 :> [name \in {PlaneVarNames[i] : i \in 1..Min(nvar, 1)} |-> Snapshots]))
    ELSE (2 :> (1 :> [name \in {PlaneVarNames[i] : i \in 1..nvar} |-> Snapshots]))

\* transpose_arrays_in_dict: every array of the dict becomes its transpose.
transpose_arrays_in_dict(d) == [k \in DOMAIN d |-> <<d[k][2], d[k][1]>>]

\* The for loop of _value_planes at variable i with dict_value so far: what
\* the function returns and what config["planes"] holds then.  The dict of a
\* variable is transposed where it is kept, before the next variable is looked
\* up, and dict_value refers to that same dict.
RECURSIVE ValueLoop(_, _, _, _, _, _)
ValueLoop(plane, planes, block_id, plane_id, i, dict_value) ==
    IF i > plane.nvar
    THEN [out |-> [kind |-> "dict", v |-> dict_value], planes |-> planes]
    ELSE IF \/ block_id \notin DOMAIN planes
            \/ plane_id \notin DOMAIN planes[block_id]
            \/ plane.var[i] \notin DOMAIN planes[block_id][plane_id]
    THEN [out |-> Raise("KeyError"), planes |-> planes]
    ELSE IF plane.normal \in {1, 2}
    THEN ValueLoop(plane,
                   [planes EXCEPT ![block_id][plane_id][plane.var[i]] =
                                      transpose_arrays_in_dict(@)],
                   block_id, plane_id, i + 1,
                   (plane.var[i] :>
                       transpose_arrays_in_dict(planes[block_id][plane_id][plane.var[i]]))
                   @@ dict_value)
    ELSE IF plane.normal = 3
    THEN ValueLoop(plane, planes, block_id, plane_id, i + 1,
                   (plane.var[i] :> planes[block_id][plane_id][plane.var[i]])
                   @@ dict_value)
    ELSE [out |-> NoneVal, planes |-> planes]

\* _value_planes(block_id, plane_id) on the plane information and the planes
\* data of the configuration: the value returned and the planes data left.
value_planes_on(plane_info, planes, block_id, plane_id) ==
    IF block_id \notin DOMAIN plane_info \/ plane_id \notin DOMAIN plane_info[block_id]
    THEN [out |-> NoneVal, planes |-> planes]
    ELSE IF DOMAIN planes = {} THEN [out |-> NoneVal, planes |-> planes]
    ELSE ValueLoop(plane_info[block_id][plane_id], planes, block_id, plane_id, 1,
                   [name \in {} |-> 0])

value_planes(plane_info, planes, block_id, plane_id) ==
    value_planes_on(plane_info, planes, block_id, plane_id).out

\* config["planes"] after _value_planes(block_id, plane_id): the variables of
\* a plane of normal 1 or 2 that the loop reached were transposed in place,
\* also when the loop ended in a KeyError at a later variable.
planes_after_value_planes(plane_info, planes, block_id, plane_id) ==
    value_planes_on(plane_info, planes, block_id, plane_id).planes

InitVP ==
    \E nvar \in 0..MaxVar, normal \in {1, 2, 3, AbsentId}, kind \in PlanesKinds,
       block_id \in {1, AbsentId}, plane_id \in {1, AbsentId} :
        /\ Bench(NX, NY, Raw("bl", NX, NY))
        /\ call = [op |-> "input", plane_info |-> PlaneInfo(nvar, normal), kind |-> kind,
                   planes |-> PlanesData(kind, nvar),
                   block_id |-> block_id, plane_id |-> plane_id]

ApplyValuePlanes ==
    /\ call.op = "input"
    /\ call' = [call EXCEPT
                  !.op = "value_planes",
                  !.planes = planes_after_value_planes(call.plane_info, call.planes,
                                                       call.block_id, call.plane_id)]
               @@ [out |-> value_planes(call.plane_info, call.planes,
                                        call.block_id, call.plane_id)]
    /\ UNCHANGED <<info, config, block_info, grid, stats, outcome, qty, result,
                   called, prev_keys, cv>>

NextVP == ApplyValuePlanes

SpecVP == InitVP /\ [][NextVP]_vars

\* ------------------------------------- the search of _freestream_velocity
\* The raw Statistics Field whose station 1 has the velocity column u and the
\* shear column w, the other stations those of the "bl" profile.
RawColumn(u, w, nx, ny) ==
    [k \in RawKeys |->
        CASE k = "uu"      -> Field(nx, ny, LAMBDA i, j : IF i = 1 THEN u[j] ELSE UU("bl", i, j))
          [] k = "rho"     -> Field(nx, ny, LAMBDA i, j : j + 1)
          [] k = "mu"      -> Field(nx, ny, LAMBDA i, j : j + 2)
          [] k = "rho*duy" -> Field(nx, ny, LAMBDA i, j :
                                 (j + 1) * (IF i = 1 THEN w[j] ELSE W("bl", i, j)))
          [] OTHER         -> Field(nx, ny, LAMBDA i, j : 0)]

InitFS ==
    \E u \in [Idx(NY) -> {-1, 2}], w \in [Idx(NY) -> {0, 1}] :
        /\ Bench(NX, NY, RawColumn(u, w, NX, NY))
        /\ call = [op |-> "input"]

\* The loop of _freestream_velocity on block 1, before the continuity check.
ApplySearch ==
    /\ call.op = "input"
    /\ call' = [op |-> "freestream_search",
                u_fst |-> SearchU(stats, 1), j_fst |-> SearchJ(stats, 1)]
    /\ UNCHANGED <<info, config, block_info, grid, stats, outcome, qty, result,
                   called, prev_keys, cv>>

NextFS == ApplySearch

SpecFS == InitFS /\ [][NextFS]_vars

\* ------------------------------------ requests around compute_rhofst
\* A session of one wall block with the wall-normal field read from
\* norm_surf.dat, station 1 of any velocity and shear columns, asked for ufst,
\* d99 and rhofst in any order.
RhoRequests == {"ufst", "d99", "rhofst"}

InitRho ==
    \E u \in [Idx(NY) -> {-1, 0, 2}], w \in [Idx(NY) -> {0, 1}] :
        /\ info = [nbloc |-> 1, is_curv |-> "T", Uref |-> UrefVal, Roref |-> RorefVal,
                   nx |-> <<NX>>, ny |-> <<NY>>]
        /\ config = [full_3d |-> FALSE, norm_file |-> TRUE,
                     norm_rows |-> NormRows(1, NX)]
        /\ block_info = << <<"0", "-">> >>
        /\ grid = [k \in {"x", "y", "nwall_normal"} |->
                     CASE k = "x" -> << Field(NX, NY, LAMBDA i, j : i) >>
                       [] k = "y" -> << Field(NX, NY, LAMBDA i, j : j) >>
                       [] k = "nwall_normal" -> read_norm_surf(NormRows(1, NX))]
        /\ stats = << RawColumn(u, w, NX, NY) >>
        /\ outcome = "idle"
        /\ qty = ""
        /\ result = <<>>
        /\ called = {}
        /\ prev_keys = << RawKeys >>
        /\ cv = [phase |-> "off"]
        /\ call = [op |-> "none"]

NextRho == \E q \in RhoRequests : ComputeQty(q)

SpecRho == InitRho /\ [][NextRho]_vars

\* ------------------------------------------- the walk of _d99_thickness
\* The condition of the while loop at (i, j): the velocity is read first.
WalkGoesOnUnbounded(st, b, i, j) ==
    100 * st[b]["uu"][i][j] < EdgePct * st[b]["ufst"].v[i]

WalkGoesOn(st, b, i, j) ==
    100 * st[b]["uu"][i][j] < EdgePct * st[b]["ufst"].v[i] /\ j < nyOf(b) - 1

\* The walk on a wall block holding any ufst, station 1 of any velocity
\* column, step by step: call.i and call.j are the loop variables, call.jmax
\* the indices stored so far, call.reads the wall-normal indices read.
InitWalk ==
    \E u \in [Idx(NY) -> {0, 2, 4}], f \in [Idx(NX) -> {0, 2, 4}] :
        /\ Bench(NX, NY, ("ufst" :> Arr(f))
                         @@ RawColumn(u, [j \in Idx(NY) |-> 0], NX, NY))
        /\ call = [op |-> "walk", i |-> 0, j |-> 0,
                   jmax |-> [i \in Idx(NX) |-> 0], reads |-> {}]

\* The condition holds: j += 1, then the body reads the indices j - 1 and j.
WalkStep ==
    /\ call.op = "walk"
    /\ WalkGoesOn(stats, 1, call.i, call.j)
    /\ call' = IF call.j + 1 \notin Idx(nyOf(1))
               THEN [call EXCEPT !.op = "IndexError",
                                 !.reads = @ \cup {call.j, call.j + 1}]
               ELSE [call EXCEPT !.j = @ + 1, !.reads = @ \cup {call.j, call.j + 1}]
    /\ UNCHANGED <<info, config, block_info, grid, stats, outcome, qty, result,
                   called, prev_keys, cv>>

\* The condition fails: jmax[i] = j and the next station starts at j = 0.
WalkStop ==
    /\ call.op = "walk"
    /\ ~WalkGoesOn(stats, 1, call.i, call.j)
    /\ call' = [call EXCEPT !.op = IF call.i + 1 = nxOf(1) THEN "returned" ELSE "walk",
                            !.jmax[call.i] = call.j,
                            !.reads = @ \cup {call.j},
                            !.i = @ + 1,
                            !.j = 0]
    /\ UNCHANGED <<info, config, block_info, grid, stats, outcome, qty, result,
                   called, prev_keys, cv>>

NextWalk == WalkStep \/ WalkStop

SpecWalk == InitWalk /\ [][NextWalk]_vars

\* The interpreter keeps running the loop until it returns.
SpecWalkFair == SpecWalk /\ WF_vars(NextWalk)

\* ------------------------------------- _displacement_thickness on its own
\* A wall block after compute_ufst, compute_d99 and compute_rhofst: ufst any
\* array of nonzero velocities, j99 the array of indices left by the d99 walk,
\* rho_fst the density at those indices.
InitDT ==
    \E p \in {"over", "bl"}, u \in [Idx(NX) -> {2, 4}], j \in [Idx(NX) -> Idx(NY)] :
        /\ Bench(NX, NY, ("ufst" :> Arr(u)) @@ ("j99" :> Arr(j))
                         @@ ("d99" :> Arr([i \in Idx(NX) |-> <<j[i], 1>>]))
                         @@ ("rho_fst" :> Arr([i \in Idx(NX) |-> j[i] + 1]))
                         @@ Raw(p, NX, NY))
        /\ call = [op |-> "input"]

ApplyDisplacement ==
    /\ call.op = "input"
    /\ call' = [op |-> "displacement_thickness", out |-> displacement_thickness(stats, 1)]
    /\ UNCHANGED <<info, config, block_info, grid, stats, outcome, qty, result,
                   called, prev_keys, cv>>

NextDT == ApplyDisplacement

SpecDT == InitDT /\ [][NextDT]_vars

\* -------------------------------- the cells of _momentum_thickness
\* A wall block with ufst nonzero at every station, on a grid of NY or NYDeep
\* wall-normal points; the cells integrated at station i are those of the
\* range of the inner loop.
InitMC ==
    \E ny \in {NY, NYDeep}, u \in [Idx(NX) -> {2, 4}], j \in [Idx(NX) -> Idx(NY)] :
        /\ Bench(NX, ny, ("ufst" :> Arr(u)) @@ ("j99" :> Arr(j))
                         @@ ("rho_fst" :> Arr([i \in Idx(NX) |-> j[i] + 1]))
                         @@ Raw("bl", NX, ny))
        /\ call = [op |-> "input"]

ApplyMomentumCells ==
    /\ call.op = "input"
    /\ call' = [op |-> "momentum_cells",
                cells |-> [i \in Idx(nxOf(1)) |-> 0 .. (ThetaCells(stats, 1, i) - 1)],
                out |-> momentum_thickness(stats, 1)]
    /\ UNCHANGED <<info, config, block_info, grid, stats, outcome, qty, result,
                   called, prev_keys, cv>>

NextMC == ApplyMomentumCells

SpecMC == InitMC /\ [][NextMC]_vars

\* ------------------------------------------- repeated calls of planes()
\* A session of one block with one plane of nvar variables whose snapshots
\* have some shape, read once into config["planes"].  The grid is the one
\* ReadGrid returns for the session, read from a grid file with ghost layers
\* (new_grid left at its default, ngh >= 1) of a block of nz spanwise points;
\* the key full_3d is in config["grid"] only when the user put it there, and
\* ReadGrid reads a missing key as False.  The mapping returned by _value_planes
\* holds, for each variable, the very dict kept in the session configuration,
\* so what a caller sees through an earlier result is the current content of
\* that dict.
MaxCalls == 3
NZ == 2      \* spanwise points of a block that has more than one

PlanesOfShape(nvar, shape) ==
    (1 :> (1 :> [name \in {PlaneVarNames[i] : i \in 1..nvar} |-> (1 :> shape)]))

\* The length of the spanwise axis read_grid returns for a block of nz
\* points.  The file of a block of nz > 1 points holds nz + 2 * ngh of them
\* and the slice [ngh:-ngh] leaves nz; the file of a block of one point holds
\* that point alone, so the slice, made on every array when full_3d is True,
\* leaves none, and z is np.zeros(1) when full_3d is not True.
SpanPoints(nz, full_3d) ==
    IF nz > 1 THEN nz ELSE IF full_3d = "True" THEN 0 ELSE 1

\* config["grid"] after the constructor of the session read the grid of a
\* block of nz spanwise points.  Cartesian: 1-D x, y and z, the z sliced as x
\* and y are when full_3d is True.  Curvilinear: 2-D x and y with a 1-D z, or
\* 3-D x, y and z sliced along their three axes when full_3d is True.
GridOfSession(is_curv, full_3d, nz) ==
    LET arrays ==
          IF is_curv = "F"
          THEN [x |-> << [i \in Idx(NX) |-> i] >>, y |-> << [j \in Idx(NY) |-> j] >>,
                z |-> << [k \in Idx(SpanPoints(nz, full_3d)) |-> k] >>]
          ELSE IF full_3d = "True"
          THEN [x |-> << [i \in Idx(NX) |-> [j \in Idx(NY) |->
                                               [k \in Idx(SpanPoints(nz, full_3d)) |-> i]]] >>,
                y |-> << [i \in Idx(NX) |-> [j \in Idx(NY) |->
                                               [k \in Idx(SpanPoints(nz, full_3d)) |-> j]]] >>,
                z |-> << [i \in Idx(NX) |-> [j \in Idx(NY) |->
                                               [k \in Idx(SpanPoints(nz, full_3d)) |-> k]]] >>]
          ELSE [x |-> << Field(NX, NY, LAMBDA i, j : i) >>,
                y |-> << Field(NX, NY, LAMBDA i, j : j) >>,
                z |-> << [k \in Idx(SpanPoints(nz, full_3d)) |-> k] >>]
    IN  IF full_3d = "unset" THEN arrays
        ELSE ("full_3d" :> (full_3d = "True")) @@ arrays

\* PreProcessPlanes._grid_z_plane(x1, x2, block_id, plane_id): on a
\* curvilinear grid self._grid["full_3d"] is looked up, and row index of x2
\* (of x1 and x2 on a 3-D grid) is taken.
grid_z_plane(g, x1, x2, plane) ==
    IF info.is_curv # "T" THEN [kind |-> "tuple", x1 |-> x1, x2 |-> x2]
    ELSE IF "full_3d" \notin DOMAIN g THEN Raise("KeyError")
    ELSE IF ~g.full_3d
    THEN IF plane.index \notin DOMAIN x2 THEN Raise("IndexError")
         ELSE [kind |-> "tuple", x1 |-> x1, x2 |-> x2[plane.index]]
    ELSE IF plane.index \notin DOMAIN x1 \/ plane.index \notin DOMAIN x2
         THEN Raise("IndexError")
         ELSE [kind |-> "tuple", x1 |-> x1[plane.index], x2 |-> x2[plane.index]]

\* PreProcessPlanes._grid_xy(x, y, block_id, plane_id): x[:, :, iz] and
\* y[:, :, iz] on a 3-D curvilinear grid, x and y otherwise.
grid_xy(g, x, y, plane) ==
    IF info.is_curv # "T" THEN [kind |-> "tuple", x1 |-> x, x2 |-> y]
    ELSE IF "full_3d" \notin DOMAIN g THEN Raise("KeyError")
    ELSE IF ~g.full_3d THEN [kind |-> "tuple", x1 |-> x, x2 |-> y]
    ELSE IF plane.index \notin DOMAIN x[0][0] THEN Raise("IndexError")
    ELSE [kind |-> "tuple",
          x1 |-> [i \in DOMAIN x |-> [j \in DOMAIN x[i] |-> x[i][j][plane.index]]],
          x2 |-> [i \in DOMAIN y |-> [j \in DOMAIN y[i] |-> y[i][j][plane.index]]]]

\* PreProcessPlanes.grid(plane_id, block_id): (x1, x2), None for a normal that
\* is not 1, 2 or 3, or the exception.
plane_grid(g, plane, block_id) ==
    IF plane.normal = 1 THEN grid_z_plane(g, g.z[block_id], g.y[block_id], plane)
    ELSE IF plane.normal = 2
    THEN Only({IF Raised(r) THEN r ELSE [kind |-> "tuple", x1 |-> r.x2, x2 |-> r.x1] :
                 r \in {grid_z_plane(g, g.z[block_id], g.x[block_id], plane)}})
    ELSE IF plane.normal = 3 THEN grid_xy(g, g.x[block_id], g.y[block_id], plane)
    ELSE NoneVal

\* PreProcessPlanes.planes() on a session of one block with one plane: what
\* it returns for that plane, or the exception, and config["planes"] after
\* it.  grid() is called before _value_planes; `x1, x2 = None` is a TypeError.
planes_on(g, plane_info, planes) ==
    Only({IF Raised(xy) THEN [out |-> xy, planes |-> planes]
          ELSE IF xy.kind = "None" THEN [out |-> Raise("TypeError"), planes |-> planes]
          ELSE Only({[out |-> IF Raised(vp.out) THEN vp.out
                              ELSE [kind |-> "dict", x1 |-> xy.x1, x2 |-> xy.x2,
                                    fields |-> vp.out],
                      planes |-> vp.planes] :
                     vp \in {value_planes_on(plane_info, planes, 1, 1)}}) :
          xy \in {plane_grid(g, plane_info[1][1], 1)}})

InitPL ==
    \E nvar \in 1..MaxVar, normal \in {1, 2, 3, AbsentId}, n1 \in 1..MaxN, n2 \in 1..(MaxN + 1),
       is_curv \in {"T", "F"}, full_3d \in {"unset", "False", "True"}, index \in 1..NX,
       nz \in {1, NZ} :
        /\ info = [nbloc |-> 1, is_curv |-> is_curv, Uref |-> UrefVal, Roref |-> RorefVal,
                   nx |-> <<NX>>, ny |-> <<NY>>, nz |-> <<nz>>]
        /\ config = [full_3d |-> FALSE, norm_file |-> FALSE, norm_rows |-> <<>>]
        /\ block_info = << <<"0", "-">> >>
        /\ grid = GridOfSession(is_curv, full_3d, nz)
        /\ stats = << Raw("bl", NX, NY) >>
        /\ outcome = "idle"
        /\ qty = ""
        /\ result = <<>>
        /\ called = {}
        /\ prev_keys = << RawKeys >>
        /\ cv = [phase |-> "off"]
        /\ call = [op |-> "session",
                   plane_info |-> (1 :> (1 :> ([index |-> index]
                                               @@ PlaneInfo(nvar, normal)[1][1]))),
                   planes0 |-> PlanesOfShape(nvar, <<n1, n2>>),
                   planes |-> PlanesOfShape(nvar, <<n1, n2>>),
                   returned |-> <<>>]

\* PostProcessMusicaa.planes(): the planes are read already, so a
\* PreProcessPlanes is built on the configuration and its planes() returns or
\* raises.
CallPlanes ==
    /\ call.op = "session"
    /\ Len(call.returned) < MaxCalls
    /\ \E r \in {planes_on(grid, call.plane_info, call.planes)} :
          call' = [call EXCEPT !.returned = Append(@, r.out), !.planes = r.planes]
    /\ UNCHANGED <<info, config, block_info, grid, stats, outcome, qty, result,
                   called, prev_keys, cv>>

NextPL == CallPlanes

SpecPL == InitPL /\ [][NextPL]_vars

\* ------------------------------------------------ read_planes and names
\* The snapshot list of one block as read_snapshots builds it: each
\* definition keeps whether its two indices agree in each direction, and its
\* list of variables (nvar is the length of the list).
MaxSnap == 2
ListVars == {<<"uu">>, <<"pp">>, <<"uu", "vv">>}

SnapshotDefs ==
    [eqI : BOOLEAN, eqJ : BOOLEAN, eqK : BOOLEAN, list_var : ListVars]

\* process_snapshots: the branch a snapshot definition takes.
snapshot_kind(s) ==
    IF \/ (s.eqI /\ ~s.eqJ /\ ~s.eqK)
       \/ (s.eqJ /\ ~s.eqI /\ ~s.eqK)
       \/ (s.eqK /\ ~s.eqI /\ ~s.eqJ)
    THEN "plane"
    ELSE IF \/ (s.eqJ /\ s.eqI /\ ~s.eqK)
            \/ (TRUE /\ s.eqK /\ ~s.eqI)
            \/ (s.eqI /\ s.eqK /\ ~s.eqJ)
    THEN "line"
    ELSE IF s.eqI /\ s.eqJ /\ s.eqK THEN "point"
    ELSE "volume"

\* process_planes: the entry of info_plane made from one snapshot definition.
process_planes(s) ==
    [nvar |-> Len(s.list_var),
     var |-> [i \in 1..Len(s.list_var) |-> s.list_var[i]],
     normal |-> IF s.eqI THEN 1 ELSE IF s.eqJ THEN 2 ELSE IF s.eqK THEN 3 ELSE 0]

\* process_volumes copies snapshots_info[block][id]['var1'..], keys the
\* snapshot list never has (it has list_var): a volume of at least one
\* variable ends process_snapshots in a KeyError.
process_volumes(s) ==
    IF Len(s.list_var) >= 1 THEN Raise("KeyError") ELSE [nvar |-> 0]

\* The first n definitions hold a volume process_snapshots cannot pass.
VolumeWithin(snaps, n) ==
    \E k \in 1..n : /\ snapshot_kind(snaps[k]) = "volume"
                    /\ Raised(process_volumes(snaps[k]))

\* The snapshot ids among the first n that process_snapshots classified as
\* planes, in order: the loop stops at the volume that raises.
RECURSIVE PlaneSnapshots(_, _)
PlaneSnapshots(snaps, n) ==
    IF n = 0 THEN <<>>
    ELSE IF snapshot_kind(snaps[n]) = "plane" /\ ~VolumeWithin(snaps, n - 1)
         THEN Append(PlaneSnapshots(snaps, n - 1), n)
         ELSE PlaneSnapshots(snaps, n - 1)

\* process_snapshots, called by the constructor of the reader: info_plane of
\* the block, plane number -> entry, or the exception that leaves it.
process_snapshots(snaps) ==
    IF VolumeWithin(snaps, Len(snaps)) THEN Raise("KeyError")
    ELSE [ip \in 1..Len(PlaneSnapshots(snaps, Len(snaps))) |->
            process_planes(snaps[PlaneSnapshots(snaps, Len(snaps))[ip]])]

\* The inner loop of read_planes for one plane: variable i of the file is
\* stored under the i-th name of snapshots_info[block][plane_id]["list_var"].
PlaneEntries(snaps, info_plane, plane_id) ==
    [name \in {snaps[plane_id].list_var[i] : i \in 1..info_plane[plane_id].nvar} |->
        <<plane_id, SetMax({i \in 1..info_plane[plane_id].nvar :
                               snaps[plane_id].list_var[i] = name})>>]

\* read_planes from plane number plane_id on, planes holding the planes
\* already read.
RECURSIVE read_planes_from(_, _, _, _)
read_planes_from(snaps, info_plane, plane_id, planes) ==
    IF plane_id > Len(info_plane) THEN [kind |-> "dict", v |-> planes]
    ELSE IF info_plane[plane_id].normal \notin {1, 2, 3} THEN NoneVal
    ELSE IF plane_id = 10 THEN NoneVal
    ELSE IF info_plane[plane_id].nvar > Len(snaps[plane_id].list_var)
    THEN Raise("IndexError")
    ELSE read_planes_from(snaps, info_plane, plane_id + 1,
                          planes @@ (plane_id :> PlaneEntries(snaps, info_plane, plane_id)))

\* ReadPlanes(...).read_planes() as PostProcessMusicaa._planes calls it: the
\* constructor runs process_snapshots, and an exception there leaves no
\* reader to call read_planes on.
read_planes(snaps) ==
    IF VolumeWithin(snaps, Len(snaps)) THEN process_snapshots(snaps)
    ELSE read_planes_from(snaps, process_snapshots(snaps), 1, <<>>)

\* The snapshot list handed to the constructor: any definitions, volumes
\* included.
InitRP ==
    \E n \in 1..MaxSnap : \E snaps \in [1..n -> SnapshotDefs] :
        /\ Bench(NX, NY, Raw("bl", NX, NY))
        /\ call = [op |-> "snapshots", snaps |-> snaps]

ApplyReadPlanes ==
    /\ call.op = "snapshots"
    /\ call' = [op |-> "read_planes", snaps |-> call.snaps,
                out |-> read_planes(call.snaps)]
    /\ UNCHANGED <<info, config, block_info, grid, stats, outcome, qty, result,
                   called, prev_keys, cv>>

NextRP == ApplyReadPlanes

SpecRP == InitRP /\ [][NextRP]_vars

\* ============================================================== the claims
Requested     == outcome # "idle"
Supported     == Lower(qty) \in COMPUTED_VARIABLES
\* The request ran its engine method to the end.
Completed     == Requested /\ Supported /\ outcome = "returned" /\ result # <<>>
\* No derived key in any block of the store st.
FreshStore(st) == \A b \in DOMAIN st : DOMAIN st[b] \cap DerivedKeys = {}
\* The key a supported request stores its field under.
StoredKey(q) == CASE q = "rhofst" -> "rho_fst"
                  [] q = "delta"  -> "deltas"
                  [] OTHER        -> q
QuantityMethods == {"compute_" \o v : v \in COMPUTED_VARIABLES}

\* C1: compute_qty never raises: whatever the name and the session, a fault
\* while serving the request ends in an empty mapping, not in an exception.
C1_NeverRaises == outcome # "raised"

\* C2: a request for a name outside the supported set returns an empty mapping,
\* runs no compute_<name> method of the engine and adds no key to any block.
C2_UnsupportedIsInert ==
    (Requested /\ ~Supported) =>
        /\ outcome = "returned"
        /\ result = <<>>
        /\ called \cap QuantityMethods = {}
        /\ \A b \in Blocks : DOMAIN stats[b] = prev_keys[b]

\* C3: on a store with no derived field and no wall-normal file, the request
\* "tauw" computes the fallback normal, ufst and rho_fst on demand and returns
\* a tauw array of length nx for every block.
C3_TauwOnFreshStore ==
    [][(FreshStore(stats) /\ HasEngine /\ ~config.norm_file /\ qty' = "tauw")
        => /\ outcome' = "returned"
           /\ DOMAIN result' = Blocks
           /\ \A b \in Blocks :
                /\ result'[b].kind = "array"
                /\ DOMAIN result'[b].v = Idx(nxOf(b))
                /\ {"ufst", "rho_fst", "tauw"} \subseteq DOMAIN stats'[b]]_vars

\* C4: when the computation of a supported name completes, every block of the
\* returned mapping holds the field stored for that name, never None.
C4_ReturnsStoredField ==
    Completed =>
        \A b \in Blocks :
            /\ result[b].kind # "None"
            /\ Has(stats, b, StoredKey(Lower(qty)))
            /\ result[b] = stats[b][StoredKey(Lower(qty))]

\* What a caller sees after requesting, in turn, the names of seq and then
\* "theta", starting from the grid g and the store st.
RECURSIVE ThetaAfter(_, _, _)
ThetaAfter(g, st, seq) ==
    IF seq = <<>>
    THEN LET r == compute_qty_on(g, st, "theta")
         IN  [outcome |-> r.outcome, result |-> r.result]
    ELSE LET r == compute_qty_on(g, st, Head(seq))
         IN  ThetaAfter(r.grid, r.stats, Tail(seq))

PrereqOrders ==
    {p \in [1 .. 3 -> {"ufst", "d99", "rhofst"}] : \A a, c \in 1 .. 3 : a # c => p[a] # p[c]}

\* C5: theta requested on a store without ufst, d99 and rho_fst equals theta
\* requested after those three were requested first, in any order.
C5_LazyTransparent ==
    FreshStore(stats) =>
        \A p \in PrereqOrders : ThetaAfter(grid, stats, p) = ThetaAfter(grid, stats, <<>>)

\* The dependency table of the orchestrator.
Requires(k) ==
    CASE k = "rho_fst" -> {"ufst"}
      [] k = "d99"     -> {"ufst"}
      [] k = "deltas"  -> {"ufst", "d99", "rho_fst"}
      [] k = "theta"   -> {"ufst", "d99", "rho_fst"}
      [] k = "tauw"    -> {"rho_fst", "ufst"}
      [] k = "cf"      -> {"rho_fst", "ufst"}
      [] OTHER         -> {}

\* C6: a derived key of a block comes with all its prerequisites in that block.
C6_PrerequisitesPresent ==
    \A b \in Blocks : \A k \in DOMAIN stats[b] : Requires(k) \subseteq DOMAIN stats[b]

\* C7: no request, successful or failed, removes a key from a block.
C7_NeverShrinks == \A b \in Blocks : prev_keys[b] \subseteq DOMAIN stats[b]

\* A failed request that nevertheless extended some block.
C7_Witness ==
    /\ Requested /\ Supported /\ result = <<>>
    /\ \E b \in Blocks : prev_keys[b] # DOMAIN stats[b]
    /\ \E b \in Blocks : prev_keys[b] \cap DerivedKeys # {}

\* C8: in a block whose jmin face is a slip wall or no wall, ufst is the scalar
\* Uref and j99 is 1 once compute_ufst ran, and d99 is nx zeros with j99 = 1
\* once compute_d99 ran, whatever the statistics of the block.
C8_NoWallBlocks ==
    /\ \A b \in Blocks : ~IsWall(b) =>
          /\ Has(stats, b, "ufst") =>
                (stats[b]["ufst"] = Sc(info.Uref) /\ stats[b]["j99"] = Sc(1))
          /\ Has(stats, b, "d99") =>
                (stats[b]["d99"] = Arr([i \in Idx(nxOf(b)) |-> <<0, 1>>])
                 /\ stats[b]["j99"] = Sc(1))
    /\ (Completed /\ Lower(qty) \in {"ufst", "d99"}) =>
          \A b \in Blocks : Has(stats, b, Lower(qty)) /\ Has(stats, b, "j99")

\* A slip-wall block and a no-wall block, both after a d99 request.
C8_Witness ==
    /\ Completed /\ Lower(qty) = "d99"
    /\ \E b \in Blocks : IsSlip(b) /\ Has(stats, b, "d99")
    /\ \E b \in Blocks : ~IsSlip(b) /\ ~IsWall(b) /\ Has(stats, b, "d99")

\* C9: a fault in one block does not stop the others: after a theta request
\* every block whose own momentum thickness can be computed has theta stored
\* and appears in the returned mapping.
C9_FaultsAreBlockLocal ==
    (Requested /\ Lower(qty) = "theta" /\ HasEngine) =>
        \A b \in Blocks :
            (/\ {"ufst", "j99", "rho_fst"} \subseteq DOMAIN stats[b]
             /\ ~Raised(momentum_thickness(stats, b)))
            => (Has(stats, b, "theta") /\ b \in DOMAIN result)

\* No two consecutive stations with a relative jump above 50 percent (a jump
\* from zero to a nonzero velocity is above every percentage).
NoJump(u) ==
    \A k \in DOMAIN u : (k + 1) \in DOMAIN u =>
        2 * Abs(u[k + 1][1] * u[k][2] - u[k][1] * u[k + 1][2]) <= Abs(u[k][1]) * u[k + 1][2]

\* C10: without a jump above 50 percent _check_vel_discontinuity returns both
\* arrays with every value unchanged; hence a second application to an output
\* without such a jump returns that output.
C10_NoJumpUnchanged ==
    /\ (cv.phase \in {"once", "twice"} /\ NoJump(cv.u)) =>
          (~Raised(cv.out) /\ cv.out.u = cv.u /\ cv.out.j = cv.j0)
    /\ (cv.phase = "twice" /\ NoJump(cv.out.u)) =>
          (~Raised(cv.again) /\ cv.again.u = cv.out.u /\ cv.again.j = cv.out.j)

\* A repaired profile (the first pass changed it) without any jump left, given
\* back unchanged by the second pass.
C10_Witness ==
    /\ cv.phase = "twice"
    /\ ~NoJump(cv.u) /\ cv.out.u # cv.u
    /\ NoJump(cv.out.u)
    /\ ~Raised(cv.again) /\ cv.again.u = cv.out.u

\* C11: in a wall block with ufst[i] = 0 at some station, _momentum_thickness
\* returns nx zeros, the stations before i included, and no station at which
\* it divides by ufst has ufst equal to zero.
C11_ZeroFreestreamZeroesBlock ==
    (call.op = "momentum_thickness"
     /\ \E i \in Idx(nxOf(1)) : stats[1]["ufst"].v[i] = 0) =>
        /\ call.out = [theta |-> Arr([i \in Idx(nxOf(1)) |-> <<0, 1>>])]
        /\ \A i \in ThetaDivided(stats, 1) : stats[1]["ufst"].v[i] # 0

\* A zero at station 1 after a station 0 whose own sum is not zero.
C11_Witness ==
    /\ call.op = "momentum_thickness"
    /\ stats[1]["ufst"].v[0] # 0 /\ stats[1]["ufst"].v[1] = 0
    /\ ThetaSum(stats, 1, 0, ThetaCells(stats, 1, 0)) # <<0, 1>>
    /\ ThetaDivided(stats, 1) = {0}
    /\ ~Raised(call.out)

\* C12: given a wall block and no wall-normal field (None), _d99_thickness
\* raises its ValueError whatever the velocity profile and returns no array.
C12_MissingNormalRaises ==
    (call.op = "d99_thickness" /\ IsWall(1) /\ call.normal_w.kind = "None") =>
        (Raised(call.out) /\ call.out.exc = "ValueError")

\* C13: compute_wall_normal returns a dict with one entry per block 1..nbloc,
\* each of shape (2, nx of that block), row 0 (x) all 0 and row 1 (y) all 1.
C13_FlatWallNormal ==
    call.op = "compute_wall_normal" =>
        /\ call.out.kind = "dict"
        /\ DOMAIN call.out.v = Blocks
        /\ \A b \in Blocks :
             /\ DOMAIN call.out.v[b] = 0 .. 1
             /\ \A c \in 0 .. 1 : DOMAIN call.out.v[b][c] = Idx(nxOf(b))
             /\ \A i \in Idx(nxOf(b)) :
                  call.out.v[b][0][i] = 0 /\ call.out.v[b][1][i] = 1

\* Two blocks of different nx, one of them without a wall.
C13_Witness ==
    /\ call.op = "compute_wall_normal"
    /\ info.nbloc = 2 /\ nxOf(1) # nxOf(2)
    /\ \E b \in Blocks : ~IsWall(b)
    /\ call.out.v[2][1][nxOf(2) - 1] = 1

\* C14: no request changes the grid coordinates x, y, z, the boundary
\* conditions of a block, or the value of a raw statistics variable of a block.
C14_InputsAreImmutable ==
    [][/\ \A k \in {"x", "y", "z"} : grid'[k] = grid[k]
       /\ block_info' = block_info
       /\ \A b \in Blocks : \A k \in RawKeys : stats'[b][k] = stats[b][k]]_vars

\* A theta request that ran to its end on a wall block and, in doing so,
\* stored the wall-normal field and every derived key theta depends on.
C14_Witness ==
    /\ Completed /\ Lower(qty) = "theta"
    /\ \E b \in Blocks :
         /\ IsWall(b)
         /\ {"ufst", "j99", "d99", "rho_fst", "theta"} \subseteq DOMAIN stats[b]
         /\ "theta" \notin prev_keys[b]
    /\ "nwall_normal" \in DOMAIN grid

\* What two requests made one after the other leave and return: the final
\* store, the result of the request for a and the result of the request for b.
SerialAB(g, st, a, b) ==
    Only({Only({<<r2.stats, r1.result, r2.result>> :
                  r2 \in {compute_qty_on(r1.grid, r1.stats, b)}}) :
            r1 \in {compute_qty_on(g, st, a)}})

SerialBA(g, st, a, b) ==
    Only({Only({<<r2.stats, r2.result, r1.result>> :
                  r2 \in {compute_qty_on(r1.grid, r1.stats, a)}}) :
            r1 \in {compute_qty_on(g, st, b)}})

RaceDone    == call.op = "race" /\ \A t \in Threads : call.th[t].pc = "done"
RaceOutcome == <<stats, call.th["a"].res, call.th["b"].res>>

RaceSerial == {SerialAB(grid, call.st0, call.th["a"].q, call.th["b"].q),
               SerialBA(grid, call.st0, call.th["a"].q, call.th["b"].q)}

\* C15: the check-then-compute sequence is not atomic.  An execution of two
\* requests whose final store or results are those of no serial execution
\* (C15_Witness reaches one) is one in which a request wrote a prerequisite
\* key while the other was between a prerequisite presence check and its use
\* of the prerequisites, or checked, read or wrote one while the other was
\* between two stores of one method; interleaved requests free of both end
\* as a serial execution, and two requests that do not overlap end as the
\* serial execution in their order.
C15_OnlyOverlapBreaksSerial ==
    RaceDone =>
        /\ RaceOutcome \notin RaceSerial => call.hit # {}
        /\ call.slot = "before" =>
              RaceOutcome = SerialBA(grid, call.st0, call.th["a"].q, call.th["b"].q)
        /\ call.slot = "after" =>
              RaceOutcome = SerialAB(grid, call.st0, call.th["a"].q, call.th["b"].q)

\* An execution in which a request wrote prerequisites between the other's
\* presence check and its use of them, in which nothing ran between two
\* stores of one method, and whose store and results are those of no serial
\* execution of the two requests.
C15_Witness ==
    /\ RaceDone /\ call.slot = "inside" /\ call.hit = {"check-use"}
    /\ RaceOutcome \notin RaceSerial
    /\ call.th["a"].res # <<>>

\* C16: stats_orienter returns the StatsReader method named after the
\* lowercased case name the reader was last given when that method exists,
\* logging no error; for every other name, the empty one included, it logs an
\* error and returns stats_stbl.
C16_OrientsByLowercasedName ==
    call.op = "stats_orienter" =>
        call.out = IF lower(call.given).base \in StatsReaderMethods
                   THEN [method |-> "stats_" \o lower(call.given).base, error |-> FALSE]
                   ELSE [method |-> "stats_stbl", error |-> TRUE]

\* C17: read_2d returns None when the file cannot be opened; otherwise it
\* returns a mapping with exactly the entries var1..var<nvar>, every stored
\* snapshot of shape (n1, n2), and every entry holding as many snapshots as
\* the file holds complete records of nvar * n1 * n2 values.
C17_OneSnapshotPerCompleteRecord ==
    call.op = "read_2d" =>
        IF ~call.file.opens THEN call.out = NoneVal
        ELSE /\ call.out.kind = "dict"
             /\ DOMAIN call.out.v = 1..call.nvar
             /\ \A i \in 1..call.nvar :
                  /\ Len(call.out.v[i]) = call.file.len \div (call.nvar * call.n1 * call.n2)
                  /\ \A k \in 1..Len(call.out.v[i]) :
                       call.out.v[i][k].shape = <<call.n1, call.n2>>

\* C18: _value_planes returns None, raising nothing, when the block id or the
\* plane id is absent from the plane information, when the planes data is
\* empty or when the normal of the plane is not 1, 2 or 3; otherwise it
\* returns a mapping with one entry per variable of the plane, the arrays
\* transposed for normals 1 and 2 and as stored for normal 3.
C18_NoneOrOneEntryPerVariable ==
    call.op = "value_planes" =>
        IF \/ call.block_id \notin DOMAIN call.plane_info
           \/ call.plane_id \notin DOMAIN call.plane_info[call.block_id]
           \/ call.kind = "empty"
           \/ call.plane_info[call.block_id][call.plane_id].normal \notin {1, 2, 3}
        THEN call.out = NoneVal
        ELSE /\ ~Raised(call.out)
             /\ call.out.kind = "dict"
             /\ DOMAIN call.out.v =
                   {PlaneVarNames[i] : i \in 1..call.plane_info[call.block_id][call.plane_id].nvar}
             /\ \A name \in DOMAIN call.out.v :
                   call.out.v[name] =
                       IF call.plane_info[call.block_id][call.plane_id].normal \in {1, 2}
                       THEN (1 :> <<StoredShape[2], StoredShape[1]>>)
                       ELSE Snapshots

\* The wall-normal indices j >= offset of station i of block b at which
\* -y(i, j) * vorticity(i, j) < c.
EdgeIndices(st, b, i) ==
    {j \in SearchOffset(st, b, i) .. (nyOf(b) - 1) :
        (-grid.y[b][i][j] * Vorticity(st, b, i, j)) * CDen < CNum}

\* C19: on a wall block, at every station i >= 1 where some index j >= offset
\* satisfies -y(i,j) * vorticity(i,j) < c, the freestream search sets j_fst[i]
\* to the smallest such index and u_fst[i] to the velocity at that index; where
\* no index qualifies, u_fst[i] is the velocity at j = 1.
C19_FirstEdgeIndexIsAbsolute ==
    call.op = "freestream_search" =>
        \A i \in 1 .. (nxOf(1) - 1) :
            IF EdgeIndices(stats, 1, i) # {}
            THEN /\ call.j_fst[i] = SetMin(EdgeIndices(stats, 1, i))
                 /\ call.j_fst[i] >= SearchOffset(stats, 1, i)
                 /\ call.u_fst[i] = stats[1]["uu"][i][SetMin(EdgeIndices(stats, 1, i))]
            ELSE call.u_fst[i] = stats[1]["uu"][i][1]

\* C20: on a wall block, once rho_fst is stored, rho_fst[i] is the density at
\* the freestream index the detector produces for station i, for every
\* i >= 1, whatever quantities were requested before.
C20_RhofstAtDetectorIndex ==
    \A b \in 1 .. info.nbloc :
        (IsWall(b) /\ "rho_fst" \in DOMAIN stats[b]
                   /\ ~Raised(freestream_velocity(stats, b))) =>
            \A i \in 1 .. (nxOf(b) - 1) :
                stats[b]["rho_fst"].v[i]
                    = stats[b]["rho"][i][freestream_velocity(stats, b).j[i]]

\* The indices j of station i at which the velocity is at least 0.99 ufst[i].
EdgeReached(st, b, i) ==
    {j \in Idx(nyOf(b)) : 100 * st[b]["uu"][i][j] >= EdgePct * st[b]["ufst"].v[i]}

\* C21: on a wall block the d99 walk stores for every station i the smallest
\* j with velocity(i, j) >= 0.99 ufst[i], or ny - 1 when there is none, so
\* 0 <= j99[i] <= ny - 1; it reads no wall-normal index outside 0 .. ny - 1;
\* and it terminates.
C21_WalkStopsAtFirstEdgeIndex ==
    /\ [](/\ call.op # "IndexError"
          /\ call.reads \subseteq Idx(nyOf(1))
          /\ \A i \in Idx(nxOf(1)) :
                (call.op = "returned" \/ i < call.i) =>
                    /\ call.jmax[i] \in Idx(nyOf(1))
                    /\ call.jmax[i] = IF EdgeReached(stats, 1, i) = {} THEN nyOf(1) - 1
                                      ELSE SetMin(EdgeReached(stats, 1, i))
                    /\ call.jmax[i] = WalkEnd(stats, 1, i))
    /\ <>(call.op = "returned")

\* The walk has returned; one station never reached the edge and stopped at
\* ny - 1, another stopped strictly inside the column.
C21_Witness ==
    /\ call.op = "returned"
    /\ \E i \in Idx(nxOf(1)) :
          EdgeReached(stats, 1, i) = {} /\ call.jmax[i] = nyOf(1) - 1
    /\ \E i \in Idx(nxOf(1)) : call.jmax[i] > 0 /\ call.jmax[i] < nyOf(1) - 1

\* C22: on a wall block on which d99 has been computed, the displacement
\* thickness returns, raising nothing, an array of length nx whose entry i is
\* the trapezoidal sum over the cells j = 0 .. j99[i] - 1 of station i.
C22_DeltaIntegratesToStationEdge ==
    call.op = "displacement_thickness" =>
        /\ ~Raised(call.out)
        /\ call.out.deltas.kind = "array"
        /\ DOMAIN call.out.deltas.v = Idx(nxOf(1))
        /\ \A i \in Idx(nxOf(1)) :
              call.out.deltas.v[i] = DeltaSum(stats, 1, i, stats[1]["j99"].v[i])

\* C23: on a wall block with ufst nonzero at every station, the momentum
\* thickness accumulates for station i exactly the cells
\* j = 0 .. min(ny - 2, j99[i] + 10), each cell using the integrand at j and
\* j + 1, and reads no wall-normal index above ny - 1.
C23_ThetaCellsReachMargin ==
    call.op = "momentum_cells" =>
        \A i \in Idx(nxOf(1)) :
            /\ call.cells[i] = 0 .. MinOf(nyOf(1) - 2, stats[1]["j99"].v[i] + ThetaMargin)
            /\ \A j \in call.cells[i] : j + 1 <= nyOf(1) - 1
            /\ ~Raised(call.out)
            /\ call.out.theta.v[i]
                 = ThetaSum(stats, 1, i,
                            MinOf(nyOf(1) - 2, stats[1]["j99"].v[i] + ThetaMargin) + 1)

\* C24: in every block where compute_tauw has stored tauw, tauw[i] is the
\* dynamic viscosity at the wall index j = 0 of station i times the
\* wall-normal gradient of the tangential velocity at j = 0 of that station.
C24_TauwUsesWallViscosity ==
    \A b \in Blocks :
        Has(stats, b, "tauw") =>
            \A i \in Idx(nxOf(b)) :
                stats[b]["tauw"].v[i]
                  = stats[b]["mu"][i][0]
                    * wall_normal_velocity(
                          stats, b,
                          Tangent(NormalOfBlock(grid["nwall_normal"], b), b))[i]

\* C25: when _check_vel_discontinuity repairs a discontinuity (first flagged
\* index >= 1), with i1 = first flagged index - 1 and i2 = last flagged
\* index + 1, the returned velocity has the length of the input and the
\* returned freestream index is j_fst[i2] on [i1, i2) and unchanged elsewhere;
\* when the first flagged index is 0 both arrays come back unchanged.
C25_RepairFreezesIndexDownstream ==
    (cv.phase \in {"once", "twice"} /\ ~Raised(cv.out) /\ Jumps(cv.u) # {}) =>
        IF SetMin(Jumps(cv.u)) >= 1
        THEN /\ DOMAIN cv.out.u = DOMAIN cv.u
             /\ DOMAIN cv.out.j = DOMAIN cv.j0
             /\ \A k \in DOMAIN cv.j0 :
                   cv.out.j[k] = IF k >= SetMin(Jumps(cv.u)) - 1 /\ k < SetMax(Jumps(cv.u)) + 1
                                 THEN cv.j0[SetMax(Jumps(cv.u)) + 1]
                                 ELSE cv.j0[k]
        ELSE cv.out.u = cv.u /\ cv.out.j = cv.j0

\* A repair that returned and changed the freestream index of some station.
C25_Witness ==
    /\ cv.phase = "once"
    /\ ~Raised(cv.out)
    /\ Jumps(cv.u) # {}
    /\ SetMin(Jumps(cv.u)) >= 1
    /\ cv.out.j # cv.j0
    /\ \E k \in DOMAIN cv.j0 : k >= SetMax(Jumps(cv.u)) + 1 /\ cv.out.j[k] # cv.out.j[SetMax(Jumps(cv.u))]

\* _check_vel_discontinuity takes its repair branch on ufst: some index is
\* flagged and the first flagged index is not 0.
RepairApplies(ufst) == Jumps(ufst) # {} /\ SetMin(Jumps(ufst)) # 0

\* C26: on a wall block whose search gives a nonzero freestream velocity at
\* station 1 and a relative jump above 50% between two consecutive stations
\* i and i + 1 with i >= 1, the ufst that compute_ufst stores went through the
\* repair of _check_vel_discontinuity: it is the spliced profile, not the raw
\* search result.
C26_RepairReachesTheStore ==
    \A b \in Blocks :
        (/\ IsWall(b)
         /\ Has(stats, b, "ufst")
         /\ SearchU(stats, b)[1] # 0
         /\ \E i \in Jumps(ToQ(SearchU(stats, b))) : i >= 1) =>
            /\ RepairApplies(ToQ(SearchU(stats, b)))
            /\ stats[b]["ufst"].v # [SearchU(stats, b) EXCEPT ![0] = SearchU(stats, b)[1]]

\* C27: in every reachable state, a derived key that _in_stats finds present
\* is present in the Statistics Field of every block, also after a request
\* that faulted part-way through its loop over the blocks.
C27_PresentMeansPresentEverywhere ==
    \A q \in DerivedKeys :
        in_stats(stats, q) => \A b \in Blocks : Has(stats, b, q)

\* The y-component of the unit wall normal of block b at station i: row
\* RowOffset(b) + i of norm_surf.dat when the file is there, 1 in the field
\* of the fallback generator.
OwnNormalY(b, i) ==
    IF config.norm_file THEN config.norm_rows[RowOffset(b) + i][2] ELSE 1

\* C28: the wall-normal store maps every block id to that block's own
\* (components x nx) field, and after a d99 request that obtained ufst every
\* wall block holds d99 with d99[i] the arc length found at station i
\* projected with the y-component of the wall normal of that block at
\* station i, whether the field came from the fallback generator or from the
\* wall-normal file.
C28_D99ProjectsOnOwnNormal ==
    /\ "nwall_normal" \in DOMAIN grid =>
          /\ grid["nwall_normal"].kind = "dict"
          /\ DOMAIN grid["nwall_normal"].v = Blocks
          /\ \A b \in Blocks : \A c \in DOMAIN grid["nwall_normal"].v[b] :
                DOMAIN grid["nwall_normal"].v[b][c] = Idx(nxOf(b))
    /\ (/\ HasEngine /\ qty = "d99" /\ "nwall_normal" \in DOMAIN grid
        /\ \A b \in Blocks : Has(stats, b, "ufst")) =>
          \A b \in Blocks :
             IsWall(b) =>
                /\ Has(stats, b, "d99")
                /\ \A i \in Idx(nxOf(b)) :
                      stats[b]["d99"].v[i]
                        = IF WalkEnd(stats, b, i) >= 1
                          THEN RAbs(RMulInt(ArcAtEdge(stats, b, i, WalkEnd(stats, b, i)),
                                            OwnNormalY(b, i)))
                          ELSE <<0, 1>>

\* The field arrays a caller sees now through the result of an earlier call.
FieldsSeen == [kind |-> "dict", v |-> call.planes[1][1]]

\* C29: repeated calls of planes() in one session, each of which returned,
\* return the same field arrays each time; preprocessing leaves the plane data
\* of the session configuration as it was read, and the result of the first
\* call is not changed by a later call.
C29_PlanesIsRepeatable ==
    (/\ call.op = "session" /\ Len(call.returned) >= 1
     /\ \A k \in 1..Len(call.returned) : ~Raised(call.returned[k])) =>
        /\ \A k \in 1..Len(call.returned) :
              call.returned[k].fields = call.returned[1].fields
        /\ call.planes = call.planes0
        /\ FieldsSeen = call.returned[1].fields

\* C30: the data of plane number p is stored under the list_var of the
\* snapshot definition classified as the p-th plane of the block, variable i
\* of the plane's file under that list's i-th name, also when lines, points or
\* volumes come before the plane in the snapshot list.
C30_PlaneStoredUnderItsOwnNames ==
    call.op = "read_planes" =>
        /\ ~Raised(call.out)
        /\ call.out.kind = "dict"
        /\ \A p \in 1..Len(PlaneSnapshots(call.snaps, Len(call.snaps))) :
              /\ p \in DOMAIN call.out.v
              /\ DOMAIN call.out.v[p] =
                    {call.snaps[PlaneSnapshots(call.snaps, Len(call.snaps))[p]].list_var[i] :
                        i \in 1..Len(call.snaps[PlaneSnapshots(call.snaps, Len(call.snaps))[p]].list_var)}
              /\ \A i \in 1..Len(call.snaps[PlaneSnapshots(call.snaps, Len(call.snaps))[p]].list_var) :
                    call.out.v[p][call.snaps[PlaneSnapshots(call.snaps, Len(call.snaps))[p]].list_var[i]] = <<p, i>>
====
